---- MODULE Spec2Model ----
(***************************************************************************)
(* Generalized XMSS (hash-sig-go): tweak encoders, chain walker, sparse    *)
(* Merkle tree, Winternitz / Target-Sum encodings and the KeyGen / Sign /  *)
(* Verify engine.                                                          *)
(*                                                                         *)
(* Hash primitives (SHA3-256, Poseidon2) are idealised as collision-free:  *)
(* a tweakable-hash or PRF output is the term built from its inputs, and   *)
(* the message-hash digest is an injective numbering of what the hasher    *)
(* absorbs.  Everything around the primitives (byte encodings, truncation, *)
(* chunking, checksums, padding, index arithmetic, control flow, fixed     *)
(* width wrap-around) is modelled as the code computes it.                 *)
(***************************************************************************)
EXTENDS Integers, Sequences, FiniteSets, TLC

VARIABLES
    eng,        \* the components handed to NewGeneralizedXMSS
    engState,   \* "none" | "ok" | "panic": outcome of NewGeneralizedXMSS
    keyState,   \* "none" | "ok" | "panic": outcome of KeyGen
    keyArgs,    \* <<activationEpoch, numActiveEpochs>> of the KeyGen call
    keyShort,   \* which KeyGen read of the byte source came back short
    pk,         \* PublicKey  {Root, Parameter}
    sk,         \* SecretKey  {PRFKey, Tree, Parameter, ActivationEpoch, NumActiveEpochs}
    signPc,     \* "idle" | "loop" | "done": position inside Sign
    signArgs,   \* <<epoch, message>> of the Sign call
    signCalls,  \* number of Sign calls made with the key so far
    attempts,   \* loop counter of Sign
    tried,      \* the rho drawn in each attempt of this Sign call, in order
    rhoShort,   \* TRUE once a read of rho in this Sign call came back short
    signRes,    \* "none" | "sig" | "NotActive" | "SigningFailed" | "panic"
    signErrAttempts, \* SigningError.Attempts
    sig,        \* Signature {Path, Rho, Hashes}
    vArgs,      \* <<epoch, message, shape of the signature handed in>> of the Verify call
    vRes,       \* "none" | "true" | "false" | "panic"
    encPc,      \* "in" | "out": position of the stand-alone encoding check
    encIn,      \* an encoding configuration and two message-digit vectors
    encOut,     \* the two Encode results
    fnPc,       \* "in" | "out": position of a library-function check
    fnIn,       \* the inputs of one library call
    fnOut,      \* what the call returned
    parJob,     \* the work handed to the goroutines of one parallel branch
    parPc,      \* "idle" | "add" | "spawn" | "wait" | "after" | "panic": the spawning routine
    parI,       \* loop variable of the spawning loop
    parWorker,  \* per goroutine: "none" | "ready" | "wrote" | "done"
    parWg,      \* counter of the WaitGroup
    parBuf,     \* the output buffer, one slot per goroutine
    cacheMap,   \* allLayerInfoCache: per base, the table stored or "absent"
    cacheMutex, \* cacheMutex: readers holding it, the writer in Lock, whether it holds it
    cacheThreads, \* per thread: position inside getAllLayerData and its locals
    cacheComputed \* per base, the number of prepareLayerInfo calls made

vars == <<eng, engState, keyState, keyArgs, keyShort, pk, sk, signPc, signArgs, signCalls,
          attempts, tried, rhoShort, signRes, signErrAttempts, sig, vArgs, vRes,
          encPc, encIn, encOut, fnPc, fnIn, fnOut,
          parJob, parPc, parI, parWorker, parWg, parBuf,
          cacheMap, cacheMutex, cacheThreads, cacheComputed>>

engineVars == <<eng, engState, keyState, keyArgs, keyShort, pk, sk, signPc, signArgs,
                signCalls, attempts, tried, rhoShort, signRes, signErrAttempts, sig, vArgs, vRes>>

encVars == <<encPc, encIn, encOut>>

parVars == <<parJob, parPc, parI, parWorker, parWg, parBuf>>

cacheVars == <<cacheMap, cacheMutex, cacheThreads, cacheComputed>>

libVars == <<fnPc, fnIn, fnOut, parVars, cacheVars>>

-----------------------------------------------------------------------------
(* Arithmetic helpers *)

RECURSIVE Pow(_, _)
Pow(b, k) == IF k <= 0 THEN 1 ELSE b * Pow(b, k - 1)

RECURSIVE SeqSum(_)
SeqSum(s) == IF s = <<>> THEN 0 ELSE Head(s) + SeqSum(Tail(s))

RECURSIVE Flatten(_)
Flatten(ss) == IF ss = <<>> THEN <<>> ELSE Head(ss) \o Flatten(Tail(ss))

Zeros(n) == [i \in 1..n |-> 0]

\* x ^ 1 on a Go int (two's complement): flips the lowest bit
Xor1(x) == IF x % 2 = 0 THEN x + 1 ELSE x - 1

RECURSIVE SetToSeq(_)
SetToSeq(S) == IF S = {} THEN <<>>
               ELSE LET x == CHOOSE y \in S : TRUE IN <<x>> \o SetToSeq(S \ {x})

IndexIn(x, s) == (CHOOSE i \in 1..Len(s) : s[i] = x) - 1

-----------------------------------------------------------------------------
(* Tweak encoders (package tweak) *)

TweakSeparatorChainHash == 0
TweakSeparatorTreeHash == 1
TweakSeparatorMessageHash == 2

\* The low two bytes only
BE32Low(x) == <<0, 0, (x \div 256) % 256, x % 256>>

BE32(x) == <<(x \div 16777216) % 256, (x \div 65536) % 256, (x \div 256) % 256, x % 256>>
LE32(x) == <<x % 256, (x \div 256) % 256, (x \div 65536) % 256, (x \div 16777216) % 256>>

\* chainIndex and posInChain are uint8, epoch is uint32
ChainTweak(epoch, chainIndex, posInChain) ==
    <<TweakSeparatorChainHash>> \o BE32(epoch) \o <<chainIndex, posInChain>>

\* level is uint8, posInLevel is uint32
TreeTweak(level, posInLevel) ==
    <<TweakSeparatorTreeHash, level>> \o BE32(posInLevel)

MessageTweak(epoch) == <<TweakSeparatorMessageHash>> \o LE32(epoch)

-----------------------------------------------------------------------------
(* Tweakable hash, PRF, chain walker *)

\* Th(P, T, M1..Mk): a collision-free hash of P || T || M1 || ... || Mk
Apply(parameter, tweak, message) == <<"th", parameter, tweak, message>>

\* PRF(K, epoch, chainIndex): a collision-free hash of DS || K || epoch || chainIndex
PrfApply(key, epoch, chainIndex) == <<"prf", key, epoch, chainIndex>>

\* A fresh random domain element; k numbers the draws
RandDomain(k) == <<"rnd", k>>

NilDomain == <<"nil">>

RECURSIVE ChainLoop(_, _, _, _, _, _, _)
ChainLoop(parameter, epoch, chainIndex, startPosInChain, j, steps, current) ==
    IF j >= steps THEN current
    ELSE ChainLoop(parameter, epoch, chainIndex, startPosInChain, j + 1, steps,
                   Apply(parameter,
                         ChainTweak(epoch, chainIndex,
                                    (startPosInChain + (j % 256) + 1) % 256),
                         <<current>>))

\* A walk that numbers its positions from 1 wherever it starts
ChainRestart(parameter, epoch, chainIndex, startPosInChain, steps, start) ==
    ChainLoop(parameter, epoch, chainIndex, 0, 0, steps, start)

\* th.Chain: steps applications of Th, the j-th under position startPosInChain+j+1 (uint8)
Chain(parameter, epoch, chainIndex, startPosInChain, steps, start) ==
    ChainLoop(parameter, epoch, chainIndex, startPosInChain, 0, steps, start)

\* The posInChain arguments th.Chain hands to ChainTweak, in order:
\* startPosInChain + uint8(j) + 1 in uint8 for j = 0..steps-1
ChainPositions(startPosInChain, steps) ==
    [j1 \in 1..steps |-> (startPosInChain + ((j1 - 1) % 256) + 1) % 256]

-----------------------------------------------------------------------------
(* Sparse Merkle tree (package merkle) *)

PadFront(startIndex) == (startIndex % 2) = 1
PadBack(nodes, startIndex) == ((startIndex + Len(nodes) - 1) % 2) = 0

\* Reads of the byte source that padded() makes
PadDraws(nodes, startIndex) ==
    (IF PadFront(startIndex) THEN 1 ELSE 0) + (IF PadBack(nodes, startIndex) THEN 1 ELSE 0)

\* A layer padded at the front only
PaddedFront(nodes, startIndex, ctr) ==
    [startIndex |-> IF PadFront(startIndex) THEN startIndex - 1 ELSE startIndex,
     nodes      |-> (IF PadFront(startIndex) THEN <<RandDomain(ctr)>> ELSE <<>>) \o nodes]

\* HashTreeLayer.padded; ctr is the number of random domain elements drawn so far
Padded(nodes, startIndex, ctr) ==
    LET front == IF PadFront(startIndex) THEN <<RandDomain(ctr)>> ELSE <<>>
        back  == IF PadBack(nodes, startIndex)
                 THEN <<RandDomain(ctr + Len(front))>> ELSE <<>>
    IN [startIndex |-> IF PadFront(startIndex) THEN startIndex - 1 ELSE startIndex,
        nodes      |-> front \o nodes \o back]

\* Parents numbered from 0 whatever the start index of the layer
ParentsFromZero(parameter, prev, level) ==
    [i \in 1..(Len(prev.nodes) \div 2) |->
          Apply(parameter,
                TreeTweak((level + 1) % 256, i - 1),
                <<prev.nodes[2 * (i - 1) + 1], prev.nodes[2 * (i - 1) + 2]>>)]

Parents(parameter, prev, level) ==
    LET parentStart == prev.startIndex \div 2
    IN [i \in 1..(Len(prev.nodes) \div 2) |->
          Apply(parameter,
                TreeTweak((level + 1) % 256, parentStart + (i - 1)),
                <<prev.nodes[2 * (i - 1) + 1], prev.nodes[2 * (i - 1) + 2]>>)]

RECURSIVE BuildLayers(_, _, _, _, _)
BuildLayers(depth, parameter, layers, level, ctr) ==
    IF level >= depth THEN layers
    ELSE LET prev        == layers[level + 1]
             parentStart == prev.startIndex \div 2
             parents     == Parents(parameter, prev, level)
         IN BuildLayers(depth, parameter,
                        Append(layers, Padded(parents, parentStart, ctr)),
                        level + 1, ctr + PadDraws(parents, parentStart))

\* merkle.NewHashTree (the caller has checked startIndex + len <= 2^depth)
NewHashTree(depth, startIndex, parameter, leafHashes) ==
    [depth  |-> depth,
     params |-> parameter,
     layers |-> BuildLayers(depth, parameter,
                            <<Padded(leafHashes, startIndex, 0)>>,
                            0, PadDraws(leafHashes, startIndex))]

RECURSIVE TreeDraws(_, _, _)
\* Number of random domain elements NewHashTree reads for a leaf segment
TreeDraws(depth, startIndex, numLeaves) ==
    LET front == IF startIndex % 2 = 1 THEN 1 ELSE 0
        back  == IF (startIndex + numLeaves - 1) % 2 = 0 THEN 1 ELSE 0
        start == startIndex - front
        len   == numLeaves + front + back
    IN front + back +
       (IF depth <= 0 THEN 0 ELSE TreeDraws(depth - 1, start \div 2, len \div 2))

Root(tree) ==
    IF Len(tree.layers) = 0 THEN NilDomain
    ELSE LET rootLayer == tree.layers[Len(tree.layers)]
         IN IF Len(rootLayer.nodes) = 0 THEN NilDomain ELSE rootLayer.nodes[1]

\* A sibling looked up with the leaf index at every level
PathNodeUnshifted(tree, epoch, level) ==
    LET layer           == tree.layers[level + 1]
        siblingRelIndex == Xor1(epoch - layer.startIndex)
    IN IF siblingRelIndex >= 0 /\ siblingRelIndex < Len(layer.nodes)
       THEN layer.nodes[siblingRelIndex + 1]
       ELSE RandDomain(-(level + 1))

\* One pass of the loop of HashTree.Path: the sibling stored at the level, or a
\* freshly drawn element when the sibling's index is outside the layer
PathNode(tree, epoch, level) ==
    LET layer           == tree.layers[level + 1]
        currentIndex    == epoch \div Pow(2, level)
        relIndex        == currentIndex - layer.startIndex
        siblingRelIndex == Xor1(relIndex)
    IN IF siblingRelIndex >= 0 /\ siblingRelIndex < Len(layer.nodes)
       THEN layer.nodes[siblingRelIndex + 1]
       ELSE RandDomain(-(level + 1))

\* HashTree.Path: the co-path, one sibling per level 0..depth-1
Path(tree, epoch) == [l \in 1..tree.depth |-> PathNode(tree, epoch, l - 1)]

RECURSIVE VerifyWalk(_, _, _, _, _)
VerifyWalk(parameter, coPath, level, index, current) ==
    IF level >= Len(coPath) THEN current
    ELSE LET children    == IF index % 2 = 0
                            THEN <<current, coPath[level + 1]>>
                            ELSE <<coPath[level + 1], current>>
             parentIndex == index \div 2
         IN VerifyWalk(parameter, coPath, level + 1, parentIndex,
                       Apply(parameter, TreeTweak((level + 1) % 256, parentIndex), children))

\* Faulty variant: a path check that accepts every opening
VerifyPathAccepts(parameter, root, epoch, leaf, coPath) == TRUE

\* merkle.VerifyPath
VerifyPath(parameter, root, epoch, leaf, coPath) ==
    VerifyWalk(parameter, coPath, 0, epoch,
               Apply(parameter, TreeTweak(0, epoch), leaf)) = root

-----------------------------------------------------------------------------
(* Hypercube layers (package hypercube).  Sizes and PrefixSums are indexed by  *)
(* d + 1, the table by the dimension v                                        *)

Max2(a, b) == IF a > b THEN a ELSE b
Min2(a, b) == IF a < b THEN a ELSE b

\* A range sum that starts at layer 0 whatever its start
SizesSumFromZero(l, start, end) == l.PrefixSums[end + 1]

\* LayerInfo.SizesSumInRange, the sum of Sizes[start..end]
SizesSumInRange(l, start, end) ==
    IF start = 0 THEN l.PrefixSums[end + 1]
    ELSE l.PrefixSums[end + 1] - l.PrefixSums[start]

RECURSIVE prepareLayerInfo(_, _)
\* prepareLayerInfo, the table up to dimension vMax (the code fills it up to
\* MaxDimension; an entry depends only on the entries below it)
prepareLayerInfo(w, vMax) ==
    IF vMax <= 1
    THEN <<[Sizes |-> [i \in 1..w |-> 1], PrefixSums |-> [i \in 1..w |-> i]]>>
    ELSE LET allInfo == prepareLayerInfo(w, vMax - 1)
             v       == vMax
             maxD    == (w - 1) * v
             currentSizes ==
                 [d1 \in 1..(maxD + 1) |->
                    LET d       == d1 - 1
                        aiStart == Max2(1, Max2(w - d, 1))
                        aiEnd   == Min2(w, w + (w - 1) * (v - 1) - d)
                    IN IF aiStart > aiEnd THEN 0
                       ELSE SizesSumInRange(allInfo[v - 1], d - (w - aiStart),
                                            d - (w - aiEnd))]
         IN Append(allInfo, [Sizes      |-> currentSizes,
                             PrefixSums |-> [i \in 1..(maxD + 1) |->
                                               SeqSum(SubSeq(currentSizes, 1, i))]])

RECURSIVE FindJ(_, _, _, _, _)
\* The inner loop of MapToVertex: <<ji, xCurr>> when it is left
FindJ(sizes, dCurr, j, jEnd, xCurr) ==
    IF j > jEnd THEN <<-1, xCurr>>
    ELSE LET count == sizes[dCurr - j + 1]
         IN IF xCurr >= count THEN FindJ(sizes, dCurr, j + 1, jEnd, xCurr - count)
            ELSE <<j, xCurr>>

RECURSIVE VertexLoop(_, _, _, _, _, _, _)
\* The outer loop of MapToVertex from coordinate i on, then the final coordinate
VertexLoop(layerData, w, v, i, xCurr, dCurr, out) ==
    IF i >= v
    THEN IF xCurr + dCurr >= w THEN [panic |-> TRUE, vertex |-> <<>>]
         ELSE [panic |-> FALSE, vertex |-> Append(out, (w - 1 - xCurr - dCurr) % 256)]
    ELSE LET rangeStart == Max2(0, dCurr - (w - 1) * (v - i))
             found      == FindJ(layerData[v - i].Sizes, dCurr, rangeStart,
                                 Min2(w - 1, dCurr), xCurr)
             ji         == found[1]
             ai         == w - ji - 1
         IN IF ji < 0 \/ ji >= w THEN [panic |-> TRUE, vertex |-> <<>>]
            ELSE VertexLoop(layerData, w, v, i + 1, found[2], dCurr - (w - 1 - ai),
                            Append(out, ai % 256))

\* MapToVertex: [panic, vertex]
MapToVertex(w, v, d, x) ==
    LET layerData == prepareLayerInfo(w, v)
    IN IF x >= layerData[v].Sizes[d + 1] THEN [panic |-> TRUE, vertex |-> <<>>]
       ELSE VertexLoop(layerData, w, v, 1, x, d, <<>>)

RECURSIVE IntegerLoop(_, _, _, _, _, _, _)
\* The loop of MapToInteger from coordinate i (0-based) down: <<xCurr, dCurr>>
IntegerLoop(layerData, w, v, a, i, xCurr, dCurr) ==
    IF i < 0 THEN <<xCurr, dCurr>>
    ELSE LET ji     == w - 1 - a[i + 1]
             dNext  == dCurr + ji
             jStart == Max2(0, dNext - (w - 1) * (v - i - 1))
         IN IntegerLoop(layerData, w, v, a, i - 1,
                        xCurr + SizesSumInRange(layerData[v - i - 1], dNext - ji + 1,
                                                dNext - jStart),
                        dNext)

\* MapToInteger: [panic, x]
MapToInteger(w, v, d, a) ==
    IF Len(a) # v THEN [panic |-> TRUE, x |-> 0]
    ELSE LET r == IntegerLoop(prepareLayerInfo(w, v), w, v, a, v - 2, 0, w - 1 - a[v])
         IN IF r[2] # d THEN [panic |-> TRUE, x |-> 0] ELSE [panic |-> FALSE, x |-> r[1]]

-----------------------------------------------------------------------------
(* Bit utilities (package bitutil) *)

ValidChunkSize(chunkSize) == chunkSize \in {1, 2, 4, 8}

\* The 8/chunkSize chunks of one byte, lowest bits first
ByteChunks(b, chunkSize) ==
    [k \in 1..(8 \div chunkSize) |-> (b \div Pow(2, (k - 1) * chunkSize)) % Pow(2, chunkSize)]

\* bitutil.BytesToChunks for a valid chunk size
BytesToChunks(bytes, chunkSize) ==
    Flatten([i \in 1..Len(bytes) |-> ByteChunks(bytes[i], chunkSize)])

\* bitutil.TruncateBits
TruncateBits(data, numBits) ==
    IF numBits <= 0 THEN <<>>
    ELSE LET want          == (numBits + 7) \div 8
             numBytes      == IF want > Len(data) THEN Len(data) ELSE want
             remainingBits == numBits % 8
         IN [i \in 1..numBytes |->
               IF i = numBytes /\ remainingBits > 0
               THEN data[i] % Pow(2, remainingBits)
               ELSE data[i]]

RECURSIVE LEBytes(_, _)
\* The n low bytes of x, least significant first; a negative x is read in
\* two's complement, which is what the wrapped unsigned value holds
LEBytes(x, n) == IF n = 0 THEN <<>> ELSE <<x % 256>> \o LEBytes(x \div 256, n - 1)

RECURSIVE FloorLog(_, _)
\* floor(log_b(x)) for x >= 1, b >= 2
FloorLog(x, b) == IF x < b THEN 0 ELSE 1 + FloorLog(x \div b, b)

-----------------------------------------------------------------------------
(* Message hashers (package message_hash) *)

\* NewSHA3MessageHash(parameterLen, randomnessLen, dimension, chunkSize)
SHA3MessageHash(dimension, chunkSize) ==
    [kind |-> "sha3", dimension |-> dimension, chunkSize |-> chunkSize, base |-> 0,
     parameterLen |-> 1, randLen |-> 1, msgLenFE |-> 0, tweakLenFE |-> 0, msgHashLenFE |-> 0]

\* NewSHA3MessageHash panics on these
NewSHA3MessageHashPanics(mh) == ~ValidChunkSize(mh.chunkSize) \/ mh.dimension > 256

\* NewPoseidonMessageHash(parameterLen, randLen, msgHashLenFE, numChunks, base, tweakLenFE, msgLenFE)
PoseidonMessageHash(numChunks, base) ==
    [kind |-> "poseidon", dimension |-> numChunks, chunkSize |-> 0, base |-> base,
     parameterLen |-> 1, randLen |-> 1, msgLenFE |-> 2, tweakLenFE |-> 1, msgHashLenFE |-> 1]

HashDimension(mh) == mh.dimension

HashBase(mh) == IF mh.kind = "sha3" THEN Pow(2, mh.chunkSize) ELSE mh.base

\* PoseidonMessageHash.ChunkSize halves the base until it reaches 1
HashChunkSize(mh) == IF mh.kind = "sha3" THEN mh.chunkSize ELSE FloorLog(mh.base, 2)

HashRandLen(mh) == IF mh.kind = "sha3" THEN mh.randLen ELSE mh.randLen * 4

BabyBearP == 2013265921

RECURSIVE LEInt(_)
\* The integer a byte string spells, least significant byte first
LEInt(data) == IF data = <<>> THEN 0 ELSE Head(data) + 256 * LEInt(Tail(data))

RECURSIVE BaseDigits(_, _, _)
\* The n low digits of acc in the given base, least significant first
BaseDigits(acc, base, n) ==
    IF n = 0 THEN <<>> ELSE <<acc % base>> \o BaseDigits(acc \div base, base, n - 1)

\* bytesToFieldElements: base-p digits of the little-endian integer; what does
\* not fit numElements digits is dropped
bytesToFieldElements(data, numElements) == BaseDigits(LEInt(data), BabyBearP, numElements)

epochToFieldElements(mh, epoch) ==
    BaseDigits(epoch * 256 + TweakSeparatorMessageHash, BabyBearP, mh.tweakLenFE)

RECURSIVE FieldAcc(_, _)
\* acc = acc*p + fe over the field elements in order
FieldAcc(fieldElements, acc) ==
    IF fieldElements = <<>> THEN acc
    ELSE FieldAcc(Tail(fieldElements), acc * BabyBearP + Head(fieldElements))

decodeToChunks(mh, fieldElements) ==
    [i \in 1..mh.dimension |-> BaseDigits(FieldAcc(fieldElements, 0), mh.base, mh.dimension)[i] % 256]

\* What SHA3-256 absorbs in SHA3MessageHash.Apply
Sha3Absorbed(parameter, epoch, randomness, message) ==
    randomness \o parameter \o MessageTweak(epoch) \o message

\* What the sponge absorbs in PoseidonMessageHash.Hash: <<capacity, input>>
PoseidonAbsorbed(mh, params, msg, rand, epoch) ==
    << bytesToFieldElements(params, mh.parameterLen) \o epochToFieldElements(mh, epoch),
       bytesToFieldElements(rand, mh.randLen) \o bytesToFieldElements(msg, mh.msgLenFE) >>

-----------------------------------------------------------------------------
(* Inputs of the model *)

\* Epochs handed to Sign and Verify: 0..MaxEpoch
MaxEpoch == 4

\* Largest logLifetime for which KeyGen is run
MaxLogLifetime == 2

\* MaxTries of the Target-Sum encoding (the code uses 100000)
MaxTriesTargetSum == 3

\* Sign calls made with one key
MaxSignCalls == 2

Epochs == 0..MaxEpoch

\* Messages handed to Sign and Verify; <<1, 0>> is <<1>> followed by a zero byte
Messages == {<<1>>, <<1, 0>>, <<2>>}

\* What the byte source can put into the first byte of a buffer it fills
SourceBytes == {0, 1}

\* The buffers of len bytes the byte source can fill completely
RandBytes(len) == {[i \in 1..len |-> IF i = 1 THEN b ELSE 0] : b \in SourceBytes}

\* The public parameter and the PRF key that KeyGen reads
ParameterDraws == {<<3>>}
PRFKeyDraws == {<<5>>}

-----------------------------------------------------------------------------
(* Idealised primitives of the message hashers *)

Sha3DigestLen == 32

Sha3Inputs ==
    {Sha3Absorbed(P, e, r, m) :
        P \in ParameterDraws, e \in Epochs, r \in RandBytes(1), m \in Messages}

Sha3InputSeq == SetToSeq(Sha3Inputs)

\* SHA3-256 as a collision-free function: distinct inputs, distinct digests
Sha3Sum(input) == LEBytes(IndexIn(input, Sha3InputSeq), Sha3DigestLen)

PoseidonInputs ==
    {PoseidonAbsorbed(PoseidonMessageHash(1, 2), P, m, r, e) :
        P \in ParameterDraws, e \in Epochs, r \in RandBytes(4), m \in Messages}

PoseidonInputSeq == SetToSeq(PoseidonInputs)

\* The Poseidon2 sponge as a collision-free function of capacity and input;
\* the squeezed output is msgHashLenFE field elements
poseidonSponge(mh, absorbed) ==
    [i \in 1..mh.msgHashLenFE |->
        IF i = mh.msgHashLenFE THEN IndexIn(absorbed, PoseidonInputSeq) ELSE 0]

\* MessageHash.Hash: the digit vector of (P, m, rho, epoch)
Hash(mh, params, msg, rand, epoch) ==
    IF mh.kind = "sha3"
    THEN LET fullHash == Sha3Sum(Sha3Absorbed(params, epoch, rand, msg))
             chunks   == BytesToChunks(TruncateBits(fullHash, mh.dimension * mh.chunkSize),
                                       mh.chunkSize)
         IN IF Len(chunks) > mh.dimension THEN SubSeq(chunks, 1, mh.dimension) ELSE chunks
    ELSE decodeToChunks(mh, SubSeq(poseidonSponge(mh, PoseidonAbsorbed(mh, params, msg, rand, epoch)),
                                   1, mh.msgHashLenFE))

-----------------------------------------------------------------------------
(* Incomparable encodings (packages winternitz, targetsum) *)

WinternitzEncoding(mh, chunkSize, numChunksChecksum) ==
    [kind |-> "winternitz", mh |-> mh, chunkSize |-> chunkSize,
     numChunksChecksum |-> numChunksChecksum, targetSum |-> 0]

TargetSumEncoding(mh, targetSum) ==
    [kind |-> "targetsum", mh |-> mh, chunkSize |-> 0,
     numChunksChecksum |-> 0, targetSum |-> targetSum]

\* A checksum length without the final + 1
ComputeChecksumLengthFloor(numChunksMessage, chunkSize) ==
    FloorLog(numChunksMessage * (Pow(2, chunkSize) - 1), Pow(2, chunkSize))

\* n1 = floor(log_base(n0 * (base - 1))) + 1.  The code takes the quotient of two
\* float64 logarithms; for n0 up to 100000 and every chunk size its floor is the
\* integer logarithm taken here.
ComputeChecksumLength(numChunksMessage, chunkSize) ==
    FloorLog(numChunksMessage * (Pow(2, chunkSize) - 1), Pow(2, chunkSize)) + 1

NewWinternitzEncodingPanics(enc) ==
    \/ ~ValidChunkSize(enc.chunkSize)
    \/ HashChunkSize(enc.mh) # enc.chunkSize
    \/ enc.numChunksChecksum # ComputeChecksumLength(HashDimension(enc.mh), enc.chunkSize)

NewTargetSumEncodingPanics(enc) ==
    \/ enc.targetSum < 0
    \/ enc.targetSum > HashDimension(enc.mh) * (HashBase(enc.mh) - 1)

\* int(delta * dimension * (base - 1) / 2.0) with delta = deltaNum / deltaDen
ComputeOptimalTarget(dimension, chunkSize, deltaNum, deltaDen) ==
    (deltaNum * dimension * (Pow(2, chunkSize) - 1)) \div (deltaDen * 2)

Dimension(enc) ==
    IF enc.kind = "winternitz" THEN HashDimension(enc.mh) + enc.numChunksChecksum
    ELSE HashDimension(enc.mh)

Base(enc) ==
    IF enc.kind = "winternitz" THEN Pow(2, enc.chunkSize) ELSE HashBase(enc.mh)

WinternitzMaxTries == 1

\* Faulty variant: one more try than the encoding allows
MaxTriesOneMore(enc) ==
    IF enc.kind = "winternitz" THEN WinternitzMaxTries + 1 ELSE MaxTriesTargetSum + 1

MaxTries(enc) == IF enc.kind = "winternitz" THEN WinternitzMaxTries ELSE MaxTriesTargetSum

RandLen(enc) == HashRandLen(enc.mh)

\* Faulty variant: a checksum that grows with the digits
WinternitzChecksumPlain(base, messageChunks) == SeqSum(messageChunks)

\* checksum += base - 1 - chunk, kept as an integer; LEBytes wraps it to 64 bits
WinternitzChecksum(base, messageChunks) ==
    SeqSum([i \in 1..Len(messageChunks) |-> base - 1 - messageChunks[i]])

\* WinternitzEncoding.Encode after the message hash
WinternitzCodeword(chunkSize, numChunksChecksum, messageChunks) ==
    LET checksumBytes  == LEBytes(WinternitzChecksum(Pow(2, chunkSize), messageChunks), 8)
        checksumChunks == BytesToChunks(checksumBytes, chunkSize)
    IN [err |-> FALSE,
        codeword |-> messageChunks \o SubSeq(checksumChunks, 1, numChunksChecksum)]

\* Faulty variant: a Target-Sum encoding that accepts every digit vector
TargetSumAccepts(targetSum, chunks) == [err |-> FALSE, codeword |-> chunks]

\* TargetSumEncoding.Encode after the message hash
TargetSumCodeword(targetSum, chunks) ==
    IF SeqSum(chunks) # targetSum
    THEN [err |-> TRUE, codeword |-> <<>>]
    ELSE [err |-> FALSE, codeword |-> chunks]

Encode(enc, P, msg, rho, epoch) ==
    IF enc.kind = "winternitz"
    THEN WinternitzCodeword(enc.chunkSize, enc.numChunksChecksum, Hash(enc.mh, P, msg, rho, epoch))
    ELSE TargetSumCodeword(enc.targetSum, Hash(enc.mh, P, msg, rho, epoch))

-----------------------------------------------------------------------------
(* Engine configurations *)

Engine(encoding, logLifetime) == [encoding |-> encoding, logLifetime |-> logLifetime]

\* Engines that go through KeyGen, Sign and Verify
SmallEngines ==
    { Engine(WinternitzEncoding(SHA3MessageHash(3, 2), 2, 2), MaxLogLifetime),
      Engine(TargetSumEncoding(SHA3MessageHash(3, 2), ComputeOptimalTarget(3, 2, 1, 1)),
             MaxLogLifetime),
      Engine(WinternitzEncoding(PoseidonMessageHash(3, 4), 2, 2), MaxLogLifetime),
      Engine(WinternitzEncoding(PoseidonMessageHash(3, 5), 2, 2), MaxLogLifetime) }

\* Engines at the limits NewGeneralizedXMSS checks
BoundaryEngines ==
    { Engine(WinternitzEncoding(SHA3MessageHash(3, 2), 2, 2), 32),
      Engine(WinternitzEncoding(SHA3MessageHash(3, 2), 2, 2), 33),
      Engine(TargetSumEncoding(PoseidonMessageHash(3, 256), 4), 18),
      Engine(TargetSumEncoding(PoseidonMessageHash(3, 257), 4), 18),
      Engine(TargetSumEncoding(PoseidonMessageHash(256, 4), 4), 18),
      Engine(TargetSumEncoding(PoseidonMessageHash(257, 4), 4), 18),
      Engine(WinternitzEncoding(SHA3MessageHash(256, 2), 2, 5), 18),
      Engine(WinternitzEncoding(SHA3MessageHash(3, 2), 2, 3), 18),
      Engine(WinternitzEncoding(PoseidonMessageHash(3, 8), 2, 2), 18) }

\* A constructor of the hasher or of the encoding panics
ComponentPanics(enc) ==
    \/ enc.mh.kind = "sha3" /\ NewSHA3MessageHashPanics(enc.mh)
    \/ enc.kind = "winternitz" /\ NewWinternitzEncodingPanics(enc)
    \/ enc.kind = "targetsum" /\ NewTargetSumEncodingPanics(enc)

\* The engines whose components exist, so that NewGeneralizedXMSS is reached
EngineInputs == {g \in SmallEngines \cup BoundaryEngines : ~ComponentPanics(g.encoding)}

\* Faulty variant: the limits of NewGeneralizedXMSS taken strictly
NewGeneralizedXMSSStrict(g) ==
    \/ g.logLifetime >= 32
    \/ Base(g.encoding) >= 256
    \/ Dimension(g.encoding) >= 256

\* NewGeneralizedXMSS panics on these
NewGeneralizedXMSSPanics(g) ==
    \/ g.logLifetime > 32
    \/ Base(g.encoding) > 256
    \/ Dimension(g.encoding) > 256

\* GeneralizedXMSS.Lifetime for the engines that run KeyGen
Lifetime(g) == Pow(2, g.logLifetime)

\* KeyGen arguments <<activationEpoch, numActiveEpochs>>: windows inside the
\* lifetime (whole, odd start, even start, empty) and windows that end past it;
\* KeyGen is run on the engines with logLifetime <= MaxLogLifetime
KeyGenInputs(g) ==
    IF g.logLifetime > MaxLogLifetime THEN {}
    ELSE {<<0, Lifetime(g)>>, <<1, 2>>, <<1, 3>>, <<2, 2>>, <<0, 0>>,
          <<Lifetime(g) - 1, 2>>, <<0, Lifetime(g) + 1>>, <<Lifetime(g), 1>>}

\* Which read of the byte source inside KeyGen returns fewer bytes than asked
ShortReads == {"none", "parameter", "prfkey", "padding"}

NoEngine == Engine(WinternitzEncoding(SHA3MessageHash(0, 0), 0, 0), 0)
NoTree == [depth |-> 0, params |-> <<>>, layers |-> <<>>]
NoPK == [Root |-> NilDomain, Parameter |-> <<>>]
NoSK == [PRFKey |-> <<>>, Tree |-> NoTree, Parameter |-> <<>>,
         ActivationEpoch |-> 0, NumActiveEpochs |-> 0]
NoSig == [Path |-> <<>>, Rho |-> <<>>, Hashes |-> <<>>]
NoEncIn == [kind |-> "none", chunkSize |-> 0, numChunksChecksum |-> 0, base |-> 0,
            targetSum |-> 0, x |-> <<>>, y |-> <<>>]
NoEncOut == [x |-> [err |-> TRUE, codeword |-> <<>>], y |-> [err |-> TRUE, codeword |-> <<>>]]

-----------------------------------------------------------------------------
(* KeyGen *)

\* The chain ends of one epoch, hashed into its leaf
ChainEnds(g, P, K, epoch) ==
    [i \in 1..Dimension(g.encoding) |->
        Chain(P, epoch, (i - 1) % 256, 0, Base(g.encoding) - 1, PrfApply(K, epoch, i - 1))]

LeafHashes(g, P, K, activationEpoch, numActiveEpochs) ==
    [k \in 1..numActiveEpochs |->
        Apply(P, TreeTweak(0, activationEpoch + k - 1),
              ChainEnds(g, P, K, activationEpoch + k - 1))]

KeyGenTree(g, P, K, activationEpoch, numActiveEpochs) ==
    NewHashTree(g.logLifetime, activationEpoch, P,
                LeafHashes(g, P, K, activationEpoch, numActiveEpochs))

\* KeyGen panics: the lifetime check, or a failed io.ReadFull in RandParameter,
\* prf.KeyGen or RandDomain
KeyGenPanics(g, activationEpoch, numActiveEpochs, short) ==
    \/ activationEpoch + numActiveEpochs > Lifetime(g)
    \/ short \in {"parameter", "prfkey"}
    \/ short = "padding" /\ TreeDraws(g.logLifetime, activationEpoch, numActiveEpochs) > 0

-----------------------------------------------------------------------------
(* Sign and Verify *)

\* Faulty variant: the activity check with its upper end off by one
ActiveUpTo(key, epoch) ==
    ~(epoch < key.ActivationEpoch \/ epoch > key.ActivationEpoch + key.NumActiveEpochs)

\* The activity check at the head of Sign
Active(key, epoch) ==
    ~(epoch < key.ActivationEpoch \/ epoch >= key.ActivationEpoch + key.NumActiveEpochs)

\* hashes[i] = Chain(P, epoch, i, 0, codeword[i], PRF(K, epoch, i))
SignHashes(g, key, epoch, codeword) ==
    [i \in 1..Dimension(g.encoding) |->
        Chain(key.Parameter, epoch, (i - 1) % 256, 0, codeword[i],
              PrfApply(key.PRFKey, epoch, i - 1))]

\* The chain ends Verify recomputes from the signature's hashes
VerifyChainEnds(g, P, epoch, codeword, hashes) ==
    [i \in 1..Dimension(g.encoding) |->
        Chain(P, epoch, (i - 1) % 256, codeword[i] % 256,
              Base(g.encoding) - 1 - codeword[i], hashes[i])]

\* GeneralizedXMSS.Verify: "true", "false", or "panic" (index out of range)
VerifyResult(g, pub, epoch, message, s) ==
    IF epoch >= Lifetime(g) THEN "false"
    ELSE LET res == Encode(g.encoding, pub.Parameter, message, s.Rho, epoch)
         IN IF res.err THEN "false"
            ELSE IF Len(res.codeword) # Dimension(g.encoding) THEN "false"
            ELSE IF Len(s.Hashes) < Dimension(g.encoding) THEN "panic"
            ELSE IF VerifyPath(pub.Parameter, pub.Root, epoch,
                               VerifyChainEnds(g, pub.Parameter, epoch, res.codeword, s.Hashes),
                               s.Path)
                 THEN "true" ELSE "false"

\* Shapes of the signature handed to Verify
SigShapes == {"honest", "shortHashes", "longHashes", "shortPath", "longPath"}

Shaped(s, shape) ==
    CASE shape = "honest"      -> s
      [] shape = "shortHashes" -> [s EXCEPT !.Hashes = SubSeq(s.Hashes, 1, Len(s.Hashes) - 1)]
      [] shape = "longHashes"  -> [s EXCEPT !.Hashes = Append(s.Hashes, RandDomain(-100))]
      [] shape = "shortPath"   -> [s EXCEPT !.Path = SubSeq(s.Path, 1, Len(s.Path) - 1)]
      [] shape = "longPath"    -> [s EXCEPT !.Path = Append(s.Path, RandDomain(-100))]

-----------------------------------------------------------------------------
(* The engine as a state machine *)

\* No engine constructed yet
EngineIdle ==
    /\ eng = NoEngine
    /\ engState = "none"
    /\ keyState = "none"
    /\ keyArgs = <<0, 0>>
    /\ keyShort = "none"
    /\ pk = NoPK
    /\ sk = NoSK
    /\ signPc = "idle"
    /\ signArgs = <<0, <<>>>>
    /\ signCalls = 0
    /\ attempts = 0
    /\ tried = <<>>
    /\ rhoShort = FALSE
    /\ signRes = "none"
    /\ signErrAttempts = 0
    /\ sig = NoSig
    /\ vArgs = <<0, <<>>, "none">>
    /\ vRes = "none"

\* No stand-alone encoding check under way
EncIdle ==
    /\ encPc = "in"
    /\ encIn = NoEncIn
    /\ encOut = NoEncOut

\* No library-function check under way
LibIdle ==
    /\ fnPc = "in"
    /\ fnIn = [kind |-> "none"]
    /\ fnOut = [kind |-> "none"]

\* No parallel branch under way
ParIdle ==
    /\ parJob = [kind |-> "none"]
    /\ parPc = "idle"
    /\ parI = 0
    /\ parWorker = <<>>
    /\ parWg = 0
    /\ parBuf = <<>>

\* The layer-info cache as the program starts: empty, unlocked, no caller
CacheIdle ==
    /\ cacheMap = <<>>
    /\ cacheMutex = [readers |-> {}, writer |-> 0, held |-> FALSE]
    /\ cacheThreads = <<>>
    /\ cacheComputed = <<>>

Init == EngineIdle /\ EncIdle /\ LibIdle /\ ParIdle /\ CacheIdle

NewGeneralizedXMSS(g) ==
    /\ engState = "none"
    /\ eng' = g
    /\ engState' = IF NewGeneralizedXMSSPanics(g) THEN "panic" ELSE "ok"
    /\ UNCHANGED <<keyState, keyArgs, keyShort, pk, sk, signPc, signArgs, signCalls, attempts,
                   tried, rhoShort, signRes, signErrAttempts, sig, vArgs, vRes, encVars, libVars>>

KeyGen(activationEpoch, numActiveEpochs, P, K, short) ==
    /\ engState = "ok"
    /\ keyState = "none"
    /\ eng.logLifetime <= MaxLogLifetime
    /\ keyArgs' = <<activationEpoch, numActiveEpochs>>
    /\ keyShort' = IF short = "padding" /\ TreeDraws(eng.logLifetime, activationEpoch,
                                                        numActiveEpochs) = 0
                   THEN "none" ELSE short
    /\ IF KeyGenPanics(eng, activationEpoch, numActiveEpochs, short)
       THEN /\ keyState' = "panic"
            /\ UNCHANGED <<pk, sk>>
       ELSE LET tree == KeyGenTree(eng, P, K, activationEpoch, numActiveEpochs)
            IN /\ keyState' = "ok"
               /\ pk' = [Root |-> Root(tree), Parameter |-> P]
               /\ sk' = [PRFKey |-> K, Tree |-> tree, Parameter |-> P,
                         ActivationEpoch |-> activationEpoch,
                         NumActiveEpochs |-> numActiveEpochs]
    /\ UNCHANGED <<eng, engState, signPc, signArgs, signCalls, attempts, tried, rhoShort,
                   signRes, signErrAttempts, sig, vArgs, vRes, encVars, libVars>>

\* Sign up to the loop: the activity check, then the path.  Verify changes
\* nothing, so a further Sign call is taken before it rather than after it.
SignBegin(epoch, message) ==
    /\ keyState = "ok"
    /\ signPc \in {"idle", "done"}
    /\ vRes = "none"
    /\ signCalls < MaxSignCalls
    /\ signCalls' = signCalls + 1
    /\ signArgs' = <<epoch, message>>
    /\ attempts' = 0
    /\ tried' = <<>>
    /\ rhoShort' = FALSE
    /\ signErrAttempts' = 0
    /\ sig' = NoSig
    /\ vArgs' = <<0, <<>>, "none">>
    /\ vRes' = "none"
    /\ IF ~Active(sk, epoch)
       THEN signPc' = "done" /\ signRes' = "NotActive"
       ELSE signPc' = "loop" /\ signRes' = "none"
    /\ UNCHANGED <<eng, engState, keyState, keyArgs, keyShort, pk, sk, encVars, libVars>>

\* One pass of the loop of Sign: RandRandomness, Encode, then break (and the
\* chain walks), return SigningError, or go round again.  A short read leaves
\* the unread part of the buffer zero and is not looked at.
SignLoopPass(drawn, short) ==
    /\ signPc = "loop"
    /\ LET epoch    == signArgs[1]
           message  == signArgs[2]
           rho      == IF short THEN Zeros(RandLen(eng.encoding)) ELSE drawn
           res      == Encode(eng.encoding, sk.Parameter, message, rho, epoch)
       IN /\ tried' = Append(tried, rho)
          /\ rhoShort' = (rhoShort \/ short)
          /\ IF ~res.err
             THEN /\ signPc' = "done"
                  /\ IF Len(res.codeword) < Dimension(eng.encoding)
                     THEN signRes' = "panic" /\ sig' = NoSig
                     ELSE /\ signRes' = "sig"
                          /\ sig' = [Path   |-> Path(sk.Tree, epoch),
                                     Rho    |-> rho,
                                     Hashes |-> SignHashes(eng, sk, epoch, res.codeword)]
                  /\ UNCHANGED <<attempts, signErrAttempts>>
             ELSE IF attempts = MaxTries(eng.encoding) - 1
             THEN /\ signPc' = "done"
                  /\ signRes' = "SigningFailed"
                  /\ signErrAttempts' = MaxTries(eng.encoding)
                  /\ UNCHANGED <<attempts, sig>>
             ELSE /\ attempts' = attempts + 1
                  /\ UNCHANGED <<signPc, signRes, signErrAttempts, sig>>
    /\ UNCHANGED <<eng, engState, keyState, keyArgs, keyShort, pk, signArgs, signCalls,
                   vArgs, vRes, encVars, libVars>>

\* A Sign that uses the key up: the key is no longer active at the signed epoch
SignAttemptConsuming(drawn, short) ==
    /\ SignLoopPass(drawn, short)
    /\ sk' = [sk EXCEPT !.NumActiveEpochs = signArgs[1] - sk.ActivationEpoch]

\* One pass of the loop of Sign; the secret key is read, never written
SignAttempt(drawn, short) ==
    /\ SignLoopPass(drawn, short)
    /\ UNCHANGED sk

\* Verify on the signature the last Sign call returned, once per Sign call: the
\* signature as returned under any epoch and message, or reshaped under the
\* signed epoch and message
Verify(epoch, message, shape) ==
    /\ signPc = "done"
    /\ signRes = "sig"
    /\ vRes = "none"
    /\ shape = "honest" \/ <<epoch, message>> = signArgs
    /\ vArgs' = <<epoch, message, shape>>
    /\ vRes' = VerifyResult(eng, pk, epoch, message, Shaped(sig, shape))
    /\ UNCHANGED <<eng, engState, keyState, keyArgs, keyShort, pk, sk, signPc, signArgs,
                   signCalls, attempts, tried, rhoShort, signRes, signErrAttempts, sig,
                   encVars, libVars>>

Next ==
    \/ \E g \in EngineInputs : NewGeneralizedXMSS(g)
    \/ \E a \in KeyGenInputs(eng), P \in ParameterDraws, K \in PRFKeyDraws, short \in ShortReads :
          KeyGen(a[1], a[2], P, K, short)
    \/ \E epoch \in Epochs, message \in Messages : SignBegin(epoch, message)
    \/ \E drawn \in RandBytes(RandLen(eng.encoding)), short \in BOOLEAN :
          SignAttempt(drawn, short)
    \/ \E epoch \in Epochs, message \in Messages, shape \in SigShapes :
          Verify(epoch, message, shape)

Spec == Init /\ [][Next]_vars

-----------------------------------------------------------------------------
(* The encodings on their own: Encode after the message hash, on two digit vectors *)

MaxChunks == 6
MaxDigitVectors == 64
MaxTargetSumBase == 4
MaxTargetSumVectors == 16

RECURSIVE PowCap(_, _, _)
\* b^k, no longer multiplied once it is above cap
PowCap(b, k, cap) ==
    IF k = 0 THEN 1
    ELSE LET r == PowCap(b, k - 1, cap) IN IF r > cap THEN r ELSE b * r

DigitVectors(base, n) == [1..n -> 0..(base - 1)]

WinternitzShapes ==
    {sh \in {1, 2, 4, 8} \X (1..MaxChunks) :
        PowCap(Pow(2, sh[1]), sh[2], MaxDigitVectors) <= MaxDigitVectors}

TargetSumShapes ==
    {sh \in (2..MaxTargetSumBase) \X (1..MaxChunks) :
        PowCap(sh[1], sh[2], MaxTargetSumVectors) <= MaxTargetSumVectors}

WinternitzInputs ==
    UNION {{[kind |-> "winternitz", chunkSize |-> sh[1],
             numChunksChecksum |-> ComputeChecksumLength(sh[2], sh[1]),
             base |-> Pow(2, sh[1]), targetSum |-> 0, x |-> x, y |-> y] :
               x \in DigitVectors(Pow(2, sh[1]), sh[2]),
               y \in DigitVectors(Pow(2, sh[1]), sh[2])} : sh \in WinternitzShapes}

TargetSumInputs ==
    UNION {{[kind |-> "targetsum", chunkSize |-> 0, numChunksChecksum |-> 0,
             base |-> sh[1], targetSum |-> T, x |-> x, y |-> y] :
               x \in DigitVectors(sh[1], sh[2]),
               y \in DigitVectors(sh[1], sh[2]),
               T \in 0..(sh[2] * (sh[1] - 1))} : sh \in TargetSumShapes}

InitEnc ==
    /\ EngineIdle
    /\ LibIdle
    /\ ParIdle
    /\ CacheIdle
    /\ encPc = "in"
    /\ encIn \in WinternitzInputs \cup TargetSumInputs
    /\ encOut = NoEncOut

EncodeWinternitz ==
    /\ encPc = "in"
    /\ encIn.kind = "winternitz"
    /\ encPc' = "out"
    /\ encOut' = [x |-> WinternitzCodeword(encIn.chunkSize, encIn.numChunksChecksum, encIn.x),
                  y |-> WinternitzCodeword(encIn.chunkSize, encIn.numChunksChecksum, encIn.y)]
    /\ UNCHANGED <<encIn, engineVars, libVars>>

EncodeTargetSum ==
    /\ encPc = "in"
    /\ encIn.kind = "targetsum"
    /\ encPc' = "out"
    /\ encOut' = [x |-> TargetSumCodeword(encIn.targetSum, encIn.x),
                  y |-> TargetSumCodeword(encIn.targetSum, encIn.y)]
    /\ UNCHANGED <<encIn, engineVars, libVars>>

NextEnc == EncodeWinternitz \/ EncodeTargetSum

SpecEnc == InitEnc /\ [][NextEnc]_vars

-----------------------------------------------------------------------------
(* The library functions on their own: one call per behaviour, inputs drawn   *)
(* from bounded sets                                                          *)

MaxChainSteps == 12

\* s steps in all from position pos, the first leg a of them: the walks from
\* position 0 and the walks that end at the last position of a uint8
ChainInputs ==
    {[kind |-> "chain", parameter |-> P, epoch |-> epoch, chainIndex |-> chainIndex,
      pos |-> pas[1], a |-> pas[2], s |-> pas[3], start |-> RandDomain(0)] :
        P \in ParameterDraws, epoch \in {0, MaxEpoch}, chainIndex \in {0, 255},
        pas \in {x \in {0, 255 - MaxChainSteps} \X (0..MaxChainSteps) \X (0..MaxChainSteps) :
                    x[2] <= x[3] /\ x[1] + x[3] <= 255}}

\* Walk a chain in one go, and in two legs that meet after a steps
ChainSplit ==
    /\ fnPc = "in"
    /\ fnIn.kind = "chain"
    /\ fnPc' = "out"
    /\ LET first == Chain(fnIn.parameter, fnIn.epoch, fnIn.chainIndex, fnIn.pos, fnIn.a,
                          fnIn.start)
       IN fnOut' = [kind   |-> "chain",
                    whole  |-> Chain(fnIn.parameter, fnIn.epoch, fnIn.chainIndex, fnIn.pos,
                                     fnIn.s, fnIn.start),
                    first  |-> first,
                    second |-> Chain(fnIn.parameter, fnIn.epoch, fnIn.chainIndex,
                                     fnIn.pos + fnIn.a, fnIn.s - fnIn.a, first)]
    /\ UNCHANGED <<fnIn, engineVars, encVars, parVars, cacheVars>>

\* uint32 and uint8 arguments: one value per byte position, and the ends of the range
\* (the largest uint32 here is 2^31 - 1)
U32Samples == {0, 1, 256, 65536, 16777216, 16777217, 2147483647}
U8Samples == {0, 1, 255}

\* What a tweak is made from: <<"chain", epoch, chainIndex, posInChain>>,
\* <<"tree", level, posInLevel>> or <<"message", epoch>>
TweakArgs ==
    ({"chain"} \X U32Samples \X U8Samples \X U8Samples)
      \cup ({"tree"} \X U8Samples \X U32Samples)
      \cup ({"message"} \X U32Samples)

TweakInputs == {[kind |-> "tweak", x |-> x, y |-> y] : x \in TweakArgs, y \in TweakArgs}

TweakOf(t) ==
    IF t[1] = "chain" THEN ChainTweak(t[2], t[3], t[4])
    ELSE IF t[1] = "tree" THEN TreeTweak(t[2], t[3])
    ELSE MessageTweak(t[2])

\* Encode two tweaks
EncodeTweaks ==
    /\ fnPc = "in"
    /\ fnIn.kind = "tweak"
    /\ fnPc' = "out"
    /\ fnOut' = [kind |-> "tweak", x |-> TweakOf(fnIn.x), y |-> TweakOf(fnIn.y)]
    /\ UNCHANGED <<fnIn, engineVars, encVars, parVars, cacheVars>>

MaxTreeDepth == 3

\* A tree of every depth over every segment [startIndex, startIndex + numLeaves)
\* that fits, and a leaf position of the segment
TreeInputs ==
    {[kind |-> "tree", depth |-> t[1], startIndex |-> t[2], numLeaves |-> t[3],
      epoch |-> t[4], parameter |-> P] :
        P \in ParameterDraws,
        t \in {x \in (0..MaxTreeDepth) \X (0..Pow(2, MaxTreeDepth)) \X (1..Pow(2, MaxTreeDepth))
                       \X (0..Pow(2, MaxTreeDepth)) :
                   /\ x[2] + x[3] <= Pow(2, x[1])
                   /\ x[4] >= x[2] /\ x[4] < x[2] + x[3]}}

\* What is hashed into the leaf at a position
LeafChildren(epoch) == <<PrfApply(<<5>>, epoch, 0), PrfApply(<<5>>, epoch, 1)>>

\* NewHashTree over the leaf hashes of a segment, then Root, Path and VerifyPath
\* for one of its leaves
OpenTree ==
    /\ fnPc = "in"
    /\ fnIn.kind = "tree"
    /\ fnPc' = "out"
    /\ LET leafHashes == [i \in 1..fnIn.numLeaves |->
                            Apply(fnIn.parameter, TreeTweak(0, fnIn.startIndex + i - 1),
                                  LeafChildren(fnIn.startIndex + i - 1))]
           tree == NewHashTree(fnIn.depth, fnIn.startIndex, fnIn.parameter, leafHashes)
           path == Path(tree, fnIn.epoch)
       IN fnOut' = [kind |-> "tree", layers |-> tree.layers, root |-> Root(tree),
                    path |-> path,
                    ok   |-> VerifyPath(fnIn.parameter, Root(tree), fnIn.epoch,
                                        LeafChildren(fnIn.epoch), path)]
    /\ UNCHANGED <<fnIn, engineVars, encVars, parVars, cacheVars>>

\* Every depth, start index and number of leaves, none included, that NewHashTree
\* accepts
BuildInputs ==
    {[kind |-> "build", depth |-> t[1], startIndex |-> t[2], numLeaves |-> t[3],
      parameter |-> P] :
        P \in ParameterDraws,
        t \in {x \in (0..MaxTreeDepth) \X (0..Pow(2, MaxTreeDepth)) \X (0..Pow(2, MaxTreeDepth)) :
                   x[2] + x[3] <= Pow(2, x[1])}}

\* NewHashTree, then Root
BuildTree ==
    /\ fnPc = "in"
    /\ fnIn.kind = "build"
    /\ fnPc' = "out"
    /\ LET leafHashes == [i \in 1..fnIn.numLeaves |->
                            Apply(fnIn.parameter, TreeTweak(0, fnIn.startIndex + i - 1),
                                  LeafChildren(fnIn.startIndex + i - 1))]
           tree == NewHashTree(fnIn.depth, fnIn.startIndex, fnIn.parameter, leafHashes)
       IN fnOut' = [kind |-> "build", layers |-> tree.layers, root |-> Root(tree)]
    /\ UNCHANGED <<fnIn, engineVars, encVars, parVars, cacheVars>>

MaxChecksumDim == 24

\* NewWinternitzEncoding over a SHA-3 message hasher of the same chunk size, with
\* every checksum length whose base power fits the integers here, and Encode on
\* the digit vectors with the largest, the smallest and a middling checksum
ChecksumInputs ==
    {[kind |-> "winternitz", chunkSize |-> x[1], numChunksMessage |-> x[2],
      numChunksChecksum |-> x[3],
      digits |-> [i \in 1..x[2] |-> IF x[4] = 2 THEN Pow(2, x[1]) - 1 ELSE x[4]]] :
        x \in {y \in {1, 2, 4, 8} \X ((1..MaxChecksumDim) \cup {64}) \X (0..8) \X (0..2) :
                  y[1] * y[3] <= 24}}

\* NewWinternitzEncoding, and Encode after the message hash when the constructor
\* has returned
NewWinternitz ==
    /\ fnPc = "in"
    /\ fnIn.kind = "winternitz"
    /\ fnPc' = "out"
    /\ LET enc == WinternitzEncoding(SHA3MessageHash(fnIn.numChunksMessage, fnIn.chunkSize),
                                     fnIn.chunkSize, fnIn.numChunksChecksum)
       IN fnOut' = [kind     |-> "winternitz",
                    panics   |-> NewWinternitzEncodingPanics(enc),
                    codeword |-> IF NewWinternitzEncodingPanics(enc) THEN <<>>
                                 ELSE WinternitzCodeword(fnIn.chunkSize,
                                                         fnIn.numChunksChecksum,
                                                         fnIn.digits).codeword]
    /\ UNCHANGED <<fnIn, engineVars, encVars, parVars, cacheVars>>

MaxHyperBase == 4
MaxHyperDim == 4

\* Every base from 2 up to MaxHyperBase with every dimension up to MaxHyperDim
TableInputs ==
    {[kind |-> "table", w |-> w, v |-> v] : w \in 2..MaxHyperBase, v \in 1..MaxHyperDim}

\* prepareLayerInfo(w), the entry of dimension v
LayerTable ==
    /\ fnPc = "in"
    /\ fnIn.kind = "table"
    /\ fnPc' = "out"
    /\ fnOut' = [kind |-> "table", info |-> prepareLayerInfo(fnIn.w, fnIn.v)[fnIn.v]]
    /\ UNCHANGED <<fnIn, engineVars, encVars, parVars, cacheVars>>

\* Every base up to MaxHyperBase with every dimension up to MaxHyperDim, and the
\* bases at the end of the byte range in dimension 1; every layer d and every x
\* below the size of the layer
HyperInputs ==
    UNION {UNION {{[kind |-> "hypercube", w |-> wv[1], v |-> wv[2], d |-> d, x |-> x] :
                     x \in 0..(prepareLayerInfo(wv[1], wv[2])[wv[2]].Sizes[d + 1] - 1)} :
                   d \in 0..((wv[1] - 1) * wv[2])} :
            wv \in ((1..MaxHyperBase) \X (1..MaxHyperDim)) \cup ({256, 257} \X {1})}

\* MapToVertex, then MapToInteger on the vertex it returned
MapRoundTrip ==
    /\ fnPc = "in"
    /\ fnIn.kind = "hypercube"
    /\ fnPc' = "out"
    /\ LET a == MapToVertex(fnIn.w, fnIn.v, fnIn.d, fnIn.x)
       IN fnOut' = [kind |-> "hypercube", vertex |-> a,
                    back |-> IF a.panic THEN [panic |-> TRUE, x |-> 0]
                             ELSE MapToInteger(fnIn.w, fnIn.v, fnIn.d, a.vertex)]
    /\ UNCHANGED <<fnIn, engineVars, encVars, parVars, cacheVars>>

\* Message hashers: SHA-3 hashers of every chunk size whose digits fill the
\* 256-bit digest exactly or ask for more, those the constructor rejects left out,
\* and Poseidon hashers
HasherInputs ==
    {mh \in {SHA3MessageHash(dc[1], dc[2]) :
               dc \in {<<3, 2>>, <<32, 8>>, <<33, 8>>, <<64, 4>>, <<65, 4>>, <<128, 2>>,
                       <<129, 2>>, <<256, 1>>, <<256, 8>>, <<257, 1>>, <<3, 3>>}} :
        ~NewSHA3MessageHashPanics(mh)}
      \cup {PoseidonMessageHash(3, 4), PoseidonMessageHash(3, 5), PoseidonMessageHash(2, 256)}

HashInputs ==
    UNION {{[kind |-> "hash", mh |-> mh, params |-> P, msg |-> m, rand |-> r, epoch |-> e] :
              P \in ParameterDraws, m \in Messages, r \in RandBytes(HashRandLen(mh)),
              e \in Epochs} : mh \in HasherInputs}

\* MessageHash.Hash
HashMessage ==
    /\ fnPc = "in"
    /\ fnIn.kind = "hash"
    /\ fnPc' = "out"
    /\ fnOut' = [kind |-> "hash",
                 digits |-> Hash(fnIn.mh, fnIn.params, fnIn.msg, fnIn.rand, fnIn.epoch)]
    /\ UNCHANGED <<fnIn, engineVars, encVars, parVars, cacheVars>>

\* NewSHA3TweakableHash panics on these
NewSHA3TweakableHashPanics(parameterLen, hashLen) == parameterLen > 255 \/ hashLen > 255

\* SHA3TweakableHash of every hash length around the 32 bytes of a SHA3-256
\* digest, up to the longest the constructor accepts; the messages are one or
\* two domain elements as RandDomain returns them
ThApplyInputs ==
    UNION {{[kind |-> "th", hashLen |-> n, parameter |-> P, tweak |-> T, message |-> M] :
              P \in ParameterDraws, T \in {ChainTweak(0, 0, 1), TreeTweak(1, 0)},
              M \in {<<x>> : x \in RandBytes(n)}
                      \cup {<<x, y>> : x \in RandBytes(n), y \in RandBytes(n)}} :
            n \in {x \in {1, 24, 31, 32, 33, 255, 256} : ~NewSHA3TweakableHashPanics(1, x)}}

\* What SHA3-256 absorbs in SHA3TweakableHash.Apply
ThAbsorbed(parameter, tweak, message) == parameter \o tweak \o Flatten(message)

ThAbsorbedSeq == SetToSeq({ThAbsorbed(r.parameter, r.tweak, r.message) : r \in ThApplyInputs})

truncateBytes(data, n) == IF Len(data) <= n THEN data ELSE SubSeq(data, 1, n)

\* SHA3TweakableHash.Apply on bytes, SHA3-256 a collision-free function
SHA3Apply(hashLen, parameter, tweak, message) ==
    truncateBytes(LEBytes(IndexIn(ThAbsorbed(parameter, tweak, message), ThAbsorbedSeq),
                          Sha3DigestLen),
                  hashLen)

\* SHA3TweakableHash.Apply
ThApply ==
    /\ fnPc = "in"
    /\ fnIn.kind = "th"
    /\ fnPc' = "out"
    /\ fnOut' = [kind |-> "th",
                 out  |-> SHA3Apply(fnIn.hashLen, fnIn.parameter, fnIn.tweak, fnIn.message)]
    /\ UNCHANGED <<fnIn, engineVars, encVars, parVars, cacheVars>>

MaxTargetDim == 48

\* Dimensions and chunk sizes with delta = 1.0 and delta = 1.1 (as 11/10); with
\* 1.1 only where delta * v * (2^w - 1) / 2 is not a whole number, so that the
\* rounding of the floating-point product cannot reach the next integer
TargetInputs ==
    {r \in {[kind |-> "target", dimension |-> v, chunkSize |-> w, deltaNum |-> dl[1],
             deltaDen |-> dl[2]] :
               v \in 1..MaxTargetDim, w \in {1, 2, 4, 8}, dl \in {<<1, 1>>, <<11, 10>>}} :
        r.deltaDen = 1
          \/ (r.deltaNum * r.dimension * (Pow(2, r.chunkSize) - 1)) % (2 * r.deltaDen) # 0}

\* targetsum.ComputeOptimalTarget
ComputeTarget ==
    /\ fnPc = "in"
    /\ fnIn.kind = "target"
    /\ fnPc' = "out"
    /\ fnOut' = [kind |-> "target",
                 T |-> ComputeOptimalTarget(fnIn.dimension, fnIn.chunkSize, fnIn.deltaNum,
                                            fnIn.deltaDen)]
    /\ UNCHANGED <<fnIn, engineVars, encVars, parVars, cacheVars>>

\* base64.StdEncoding.EncodeToString: sextets 0..63, and 64 for the padding '='
RECURSIVE EncodeToString(_)
EncodeToString(b) ==
    IF Len(b) = 0 THEN <<>>
    ELSE IF Len(b) = 1
    THEN <<b[1] \div 4, (b[1] % 4) * 16, 64, 64>>
    ELSE IF Len(b) = 2
    THEN <<b[1] \div 4, (b[1] % 4) * 16 + b[2] \div 16, (b[2] % 16) * 4, 64>>
    ELSE <<b[1] \div 4, (b[1] % 4) * 16 + b[2] \div 16, (b[2] % 16) * 4 + b[3] \div 64,
           b[3] % 64>> \o EncodeToString(SubSeq(b, 4, Len(b)))

\* base64.StdEncoding.DecodeString: padding only in the last quantum
RECURSIVE DecodeString(_)
DecodeString(s) ==
    IF Len(s) = 0 THEN [err |-> FALSE, bytes |-> <<>>]
    ELSE IF Len(s) < 4 \/ s[1] = 64 \/ s[2] = 64 THEN [err |-> TRUE, bytes |-> <<>>]
    ELSE IF s[3] = 64
    THEN IF s[4] = 64 /\ Len(s) = 4
         THEN [err |-> FALSE, bytes |-> <<s[1] * 4 + s[2] \div 16>>]
         ELSE [err |-> TRUE, bytes |-> <<>>]
    ELSE IF s[4] = 64
    THEN IF Len(s) = 4
         THEN [err |-> FALSE,
               bytes |-> <<s[1] * 4 + s[2] \div 16, (s[2] % 16) * 16 + s[3] \div 4>>]
         ELSE [err |-> TRUE, bytes |-> <<>>]
    ELSE LET rest == DecodeString(SubSeq(s, 5, Len(s)))
         IN [err   |-> rest.err,
             bytes |-> <<s[1] * 4 + s[2] \div 16, (s[2] % 16) * 16 + s[3] \div 4,
                         (s[3] % 4) * 64 + s[4]>> \o rest.bytes]

\* The base64 text of a tree node (the bytes of a hash value are not spelled out)
EncodeDomain(node) == <<"base64", node>>

DecodeDomain(str) == str[2]

\* SecretKey.MarshalJSON: the fields of secretKeyJSON
MarshalJSON(key) ==
    [PRFKey          |-> EncodeToString(key.PRFKey),
     Tree            |-> [depth  |-> key.Tree.depth,
                          layers |-> [i \in 1..Len(key.Tree.layers) |->
                             [start_index |-> key.Tree.layers[i].startIndex,
                              nodes       |-> [j \in 1..Len(key.Tree.layers[i].nodes) |->
                                                 EncodeDomain(key.Tree.layers[i].nodes[j])]]]],
     Parameter       |-> EncodeToString(key.Parameter),
     ActivationEpoch |-> key.ActivationEpoch,
     NumActiveEpochs |-> key.NumActiveEpochs]

\* The layers both decoders rebuild with NewHashTreeLayer
DecodedLayers(data) ==
    [i \in 1..Len(data.Tree.layers) |->
        [startIndex |-> data.Tree.layers[i].start_index,
         nodes      |-> [j \in 1..Len(data.Tree.layers[i].nodes) |->
                           DecodeDomain(data.Tree.layers[i].nodes[j])]]]

\* UnmarshalSecretKey(data, thash): the tree rebuilt by NewHashTreeFromLayers
UnmarshalSecretKey(data) ==
    LET prfKey == DecodeString(data.PRFKey)
        param  == DecodeString(data.Parameter)
    IN IF prfKey.err \/ param.err THEN [err |-> TRUE, key |-> NoSK]
       ELSE [err |-> FALSE,
             key |-> [PRFKey |-> prfKey.bytes,
                      Tree |-> [depth  |-> data.Tree.depth, params |-> param.bytes,
                                layers |-> DecodedLayers(data)],
                      Parameter |-> param.bytes,
                      ActivationEpoch |-> data.ActivationEpoch,
                      NumActiveEpochs |-> data.NumActiveEpochs]]

\* SecretKey.UnmarshalJSON, what json.Unmarshal(data, &sk) runs: the layers are
\* decoded and dropped, sk.Tree = nil
UnmarshalJSON(data) ==
    LET prfKey == DecodeString(data.PRFKey)
        param  == DecodeString(data.Parameter)
    IN IF prfKey.err \/ param.err THEN [err |-> TRUE, key |-> NoSK]
       ELSE [err |-> FALSE,
             key |-> [PRFKey |-> prfKey.bytes,
                      Tree |-> NoTree,
                      Parameter |-> param.bytes,
                      ActivationEpoch |-> data.ActivationEpoch,
                      NumActiveEpochs |-> data.NumActiveEpochs]]

\* The head of Sign: the activity check, then sk.Tree.Path(epoch), which
\* dereferences sk.Tree
SignPath(key, epoch) ==
    IF ~Active(key, epoch) THEN [res |-> "NotActive", path |-> <<>>]
    ELSE IF key.Tree = NoTree THEN [res |-> "panic", path |-> <<>>]
    ELSE [res |-> "ok", path |-> Path(key.Tree, epoch)]

\* Keys to store: windows of KeyGen inside the lifetime, byte strings of every
\* length modulo 3, and the decoder
PersistInputs ==
    {[kind |-> "persist", g |-> g, window |-> a, P |-> pk2[1], K |-> pk2[2], via |-> via] :
        g \in SmallEngines,
        a \in {<<0, Pow(2, MaxLogLifetime)>>, <<1, 2>>, <<1, 3>>, <<2, 2>>, <<0, 0>>},
        pk2 \in {<<<<3>>, <<5>>>>, <<<<>>, <<255, 254>>>>, <<<<1, 2, 3>>, <<250, 0, 7, 9>>>>},
        via \in {"UnmarshalSecretKey", "json.Unmarshal"}}

\* KeyGen, MarshalJSON, one of the decoders, and the head of Sign with both keys
\* at every epoch of the lifetime
PersistKey ==
    /\ fnPc = "in"
    /\ fnIn.kind = "persist"
    /\ fnPc' = "out"
    /\ LET key == [PRFKey |-> fnIn.K,
                   Tree |-> KeyGenTree(fnIn.g, fnIn.P, fnIn.K, fnIn.window[1],
                                       fnIn.window[2]),
                   Parameter |-> fnIn.P,
                   ActivationEpoch |-> fnIn.window[1],
                   NumActiveEpochs |-> fnIn.window[2]]
           stored   == MarshalJSON(key)
           restored == IF fnIn.via = "UnmarshalSecretKey" THEN UnmarshalSecretKey(stored)
                       ELSE UnmarshalJSON(stored)
       IN fnOut' = [kind |-> "persist", sk |-> key, stored |-> stored,
                    restored |-> restored,
                    sign |-> [e \in 1..Lifetime(fnIn.g) |-> SignPath(key, e - 1)],
                    signRestored |-> [e \in 1..Lifetime(fnIn.g) |->
                                        SignPath(restored.key, e - 1)]]
    /\ UNCHANGED <<fnIn, engineVars, encVars, parVars, cacheVars>>

\* A part that holds the whole hypercube whatever its last layer
HypercubePartSizeWhole(w, v, d) ==
    prepareLayerInfo(w, v)[v].PrefixSums[(w - 1) * v + 1]

\* HypercubePartSize: the number of vertices in layers 0..d
HypercubePartSize(w, v, d) == prepareLayerInfo(w, v)[v].PrefixSums[d + 1]

RECURSIVE FindLayerLoop(_, _, _)
\* for d < len(prefixSums) && prefixSums[d] <= x { d++ }
FindLayerLoop(prefixSums, d, x) ==
    IF d < Len(prefixSums) /\ prefixSums[d + 1] <= x THEN FindLayerLoop(prefixSums, d + 1, x)
    ELSE d

\* HypercubeFindLayer: [panic, layer, remainder]
HypercubeFindLayer(w, v, x) ==
    LET prefixSums == prepareLayerInfo(w, v)[v].PrefixSums
        d          == FindLayerLoop(prefixSums, 0, x)
    IN IF x >= prefixSums[Len(prefixSums)] THEN [panic |-> TRUE, layer |-> 0, remainder |-> 0]
       ELSE IF d = 0 THEN [panic |-> FALSE, layer |-> 0, remainder |-> x]
       ELSE [panic |-> FALSE, layer |-> d, remainder |-> x - prefixSums[d]]

\* TopLevelPoseidonMessageHash.mapIntoHypercubePart: [panic, vertex]
mapIntoHypercubePart(h, fieldElements) ==
    LET acc   == FieldAcc(fieldElements, 0)
                   % HypercubePartSize(h.base, h.dimension, h.finalLayer)
        found == HypercubeFindLayer(h.base, h.dimension, acc)
    IN IF found.panic THEN [panic |-> TRUE, vertex |-> <<>>]
       ELSE MapToVertex(h.base, h.dimension, found.layer, found.remainder)

\* Largest base and dimension of the top-level hashers
MaxPartBase == 3
MaxPartDim == 3

\* Top-level hashers of every base, dimension and final layer within the bounds,
\* with squeezed outputs of one or two field elements (accumulators below 2^31)
PartInputs ==
    {[kind |-> "part", h |-> [base |-> bvf[1], dimension |-> bvf[2], finalLayer |-> bvf[3]],
      fieldElements |-> fe] :
        bvf \in {x \in (1..MaxPartBase) \X (1..MaxPartDim) \X (0..((MaxPartBase - 1) * MaxPartDim)) :
                    x[3] <= (x[1] - 1) * x[2]},
        fe \in {<<0>>, <<1>>, <<2>>, <<5>>, <<BabyBearP - 1>>, <<0, 11>>, <<1, 0>>,
                <<1, 134217726>>}}

\* The tail of TopLevelPoseidonMessageHash.Hash: mapIntoHypercubePart(allOutputs)
MapIntoPart ==
    /\ fnPc = "in"
    /\ fnIn.kind = "part"
    /\ fnPc' = "out"
    /\ fnOut' = [kind |-> "part", res |-> mapIntoHypercubePart(fnIn.h, fnIn.fieldElements)]
    /\ UNCHANGED <<fnIn, engineVars, encVars, parVars, cacheVars>>

\* Squeezed outputs handed to decodeToChunks: one or two field elements
\* (accumulators below 2^31), bases inside and outside the powers of two
DecodeInputs ==
    {[kind |-> "decode", mh |-> [PoseidonMessageHash(n, b) EXCEPT !.msgHashLenFE = Len(fe)],
      fieldElements |-> fe] :
        n \in 1..4, b \in {2, 4, 5, 8},
        fe \in {<<0>>, <<1>>, <<7>>, <<BabyBearP - 1>>,
                <<0, 0>>, <<0, 1>>, <<1, 0>>, <<1, 1>>, <<1, 6>>, <<0, BabyBearP - 1>>}}

\* The tail of PoseidonMessageHash.Hash: decodeToChunks(result[:msgHashLenFE])
DecodeChunks ==
    /\ fnPc = "in"
    /\ fnIn.kind = "decode"
    /\ fnPc' = "out"
    /\ fnOut' = [kind |-> "decode",
                 acc |-> FieldAcc(SubSeq(fnIn.fieldElements, 1, fnIn.mh.msgHashLenFE), 0),
                 chunks |-> decodeToChunks(fnIn.mh,
                              SubSeq(fnIn.fieldElements, 1, fnIn.mh.msgHashLenFE))]
    /\ UNCHANGED <<fnIn, engineVars, encVars, parVars, cacheVars>>

FnInputs ==
    ChainInputs \cup TweakInputs \cup TreeInputs \cup HyperInputs \cup HashInputs
      \cup ThApplyInputs \cup TargetInputs \cup PersistInputs \cup BuildInputs
      \cup ChecksumInputs \cup TableInputs \cup DecodeInputs
      \cup PartInputs

InitFn ==
    /\ EngineIdle
    /\ EncIdle
    /\ ParIdle
    /\ CacheIdle
    /\ fnPc = "in"
    /\ fnIn \in FnInputs
    /\ fnOut = [kind |-> "none"]

NextFn ==
    \/ ChainSplit \/ EncodeTweaks \/ OpenTree \/ MapRoundTrip \/ HashMessage \/ ThApply
    \/ ComputeTarget \/ PersistKey \/ BuildTree \/ NewWinternitz
    \/ LayerTable \/ DecodeChunks \/ MapIntoPart

SpecFn == InitFn /\ [][NextFn]_vars

-----------------------------------------------------------------------------
(* The goroutine branches of KeyGen, Sign and NewHashTree *)

\* Largest number of goroutines one branch starts. The code takes the goroutine
\* branch above 10 epochs, 20 chains or 100 parents; the goroutine bodies do not
\* depend on that count.
MaxWorkers == 3

\* The engine whose KeyGen and Sign run the branch
ParEngine ==
    Engine(TargetSumEncoding(SHA3MessageHash(3, 2), ComputeOptimalTarget(3, 2, 1, 1)),
           MaxLogLifetime)

\* One job per branch: the epochs of KeyGen, the chains of Sign (data.nodes is the
\* codeword), the parents of a layer (data is the layer below)
ParJobs ==
    { [kind |-> "keygen", n |-> n, start |-> a,
        data |-> [startIndex |-> 0, nodes |-> <<>>]] :
          a \in {0, 1}, n \in 1..MaxWorkers }
      \cup
    { [kind |-> "sign", n |-> Dimension(ParEngine.encoding), start |-> e,
        data |-> [startIndex |-> 0, nodes |-> c]] :
          e \in {0, MaxEpoch}, c \in {<<1, 1, 2>>, <<0, 3, 1>>} }
      \cup
    { [kind |-> "tree", n |-> n, start |-> l,
       data |-> Padded([i \in 1..(2 * n - 1) |-> RandDomain(10 + i)], a, 0)] :
          a \in {1, 2}, l \in {0, 1}, n \in 1..MaxWorkers }

\* The argument a goroutine works with: its own copy idx of the loop variable,
\* passed by value when it was started (i is the loop variable when it runs)
WorkerSlotShared(idx, i) == i

WorkerSlot(idx, i) == idx

\* What the goroutine with argument idx stores into its slot
SlotValue(job, idx) ==
    CASE job.kind = "keygen" ->
           Apply(<<3>>, TreeTweak(0, job.start + idx),
                 ChainEnds(ParEngine, <<3>>, <<5>>, job.start + idx))
      [] job.kind = "sign" ->
           Chain(<<3>>, job.start, idx % 256, 0, job.data.nodes[idx + 1],
                 PrfApply(<<5>>, job.start, idx))
      [] job.kind = "tree" ->
           Apply(<<3>>,
                 TreeTweak((job.start + 1) % 256, (job.data.startIndex \div 2) + idx),
                 <<job.data.nodes[2 * idx + 1], job.data.nodes[2 * idx + 2]>>)

\* What the sequential branch leaves in the buffer on the same inputs
Sequential(job) ==
    CASE job.kind = "keygen" -> LeafHashes(ParEngine, <<3>>, <<5>>, job.start, job.n)
      [] job.kind = "sign" ->
           SignHashes(ParEngine, [Parameter |-> <<3>>, PRFKey |-> <<5>>], job.start,
                      job.data.nodes)
      [] job.kind = "tree" -> Parents(<<3>>, job.data, job.start)

\* make([]th.Domain, n); wg.Add(n)
WgAdd ==
    /\ parPc = "add"
    /\ parBuf' = [k \in 1..parJob.n |-> NilDomain]
    /\ parWorker' = [k \in 1..parJob.n |-> "none"]
    /\ parWg' = parJob.n
    /\ parI' = 0
    /\ parPc' = "spawn"
    /\ UNCHANGED <<parJob, engineVars, encVars, fnPc, fnIn, fnOut, cacheVars>>

\* One pass of the loop: go func(idx int) { ... }(i); i++
GoWorker ==
    /\ parPc = "spawn"
    /\ parI < parJob.n
    /\ parWorker' = [parWorker EXCEPT ![parI + 1] = "ready"]
    /\ parI' = parI + 1
    /\ parPc' = IF parI + 1 < parJob.n THEN "spawn" ELSE "wait"
    /\ UNCHANGED <<parJob, parWg, parBuf, engineVars, encVars, fnPc, fnIn, fnOut,
                   cacheVars>>

\* The body of goroutine k: compute, then store into the buffer; an index outside
\* the buffer panics
WorkerRun(k) ==
    /\ parPc \in {"spawn", "wait"}
    /\ parWorker[k] = "ready"
    /\ LET slot == WorkerSlot(k - 1, parI)
       IN IF slot < parJob.n
          THEN /\ parBuf' = [parBuf EXCEPT ![slot + 1] = SlotValue(parJob, slot)]
               /\ parWorker' = [parWorker EXCEPT ![k] = "wrote"]
               /\ UNCHANGED parPc
          ELSE /\ parPc' = "panic"
               /\ UNCHANGED <<parBuf, parWorker>>
    /\ UNCHANGED <<parJob, parI, parWg, engineVars, encVars, fnPc, fnIn, fnOut,
                   cacheVars>>

\* The deferred wg.Done() of goroutine k
WorkerDone(k) ==
    /\ parPc \in {"spawn", "wait"}
    /\ parWorker[k] = "wrote"
    /\ parWorker' = [parWorker EXCEPT ![k] = "done"]
    /\ parWg' = parWg - 1
    /\ UNCHANGED <<parJob, parPc, parI, parBuf, engineVars, encVars, fnPc, fnIn, fnOut,
                   cacheVars>>

\* wg.Wait() returns once the counter is zero
WgWait ==
    /\ parPc = "wait"
    /\ parWg = 0
    /\ parPc' = "after"
    /\ UNCHANGED <<parJob, parI, parWorker, parWg, parBuf, engineVars, encVars, fnPc,
                   fnIn, fnOut, cacheVars>>

InitPar ==
    /\ EngineIdle
    /\ EncIdle
    /\ LibIdle
    /\ CacheIdle
    /\ parJob \in ParJobs
    /\ parPc = "add"
    /\ parI = 0
    /\ parWorker = <<>>
    /\ parWg = 0
    /\ parBuf = <<>>

NextPar ==
    \/ WgAdd
    \/ GoWorker
    \/ \E k \in 1..MaxWorkers : k <= parJob.n /\ WorkerRun(k)
    \/ \E k \in 1..MaxWorkers : k <= parJob.n /\ WorkerDone(k)
    \/ WgWait

SpecPar == InitPar /\ [][NextPar]_vars

-----------------------------------------------------------------------------
(* The layer-info cache: getAllLayerData called from several threads *)

\* Number of threads calling getAllLayerData
MaxThreads == 3

\* The bases asked for
CacheBases == {2, 3}

\* A key with no entry in allLayerInfoCache
NoEntry == [state |-> "absent", base |-> 0, gen |-> 0, table |-> <<>>]

\* The second lookup decides that nothing needs computing
RecheckSkipped(entry) == FALSE

\* exists, as the second lookup (under the write lock) reports it
existsUnderLock(entry) == entry.state # "absent"

\* Where a thread waits inside sync.RWMutex: RLock while a writer is in Lock or
\* holds the mutex, Lock while another writer is, and then while readers are inside
Blocked(t) ==
    CASE cacheThreads[t].pc \in {"rlock", "lock"} -> cacheMutex.writer # 0
      [] cacheThreads[t].pc = "acquire" -> cacheMutex.readers # {}
      [] OTHER -> FALSE

\* cacheMutex.RLock()
RLock(t) ==
    /\ cacheThreads[t].pc = "rlock"
    /\ ~Blocked(t)
    /\ cacheMutex' = [cacheMutex EXCEPT !.readers = @ \cup {t}]
    /\ cacheThreads' = [cacheThreads EXCEPT ![t].pc = "read"]
    /\ UNCHANGED <<cacheMap, cacheComputed, engineVars, encVars, fnPc, fnIn, fnOut,
                   parVars>>

\* info, exists := allLayerInfoCache[w]
ReadEntry(t) ==
    /\ cacheThreads[t].pc = "read"
    /\ cacheThreads' = [cacheThreads EXCEPT
                          ![t].pc = "runlock",
                          ![t].info = cacheMap[cacheThreads[t].w],
                          ![t].exists = cacheMap[cacheThreads[t].w].state # "absent"]
    /\ UNCHANGED <<cacheMap, cacheMutex, cacheComputed, engineVars, encVars, fnPc, fnIn,
                   fnOut, parVars>>

\* cacheMutex.RUnlock(); if !exists { ... }; return info
RUnlock(t) ==
    /\ cacheThreads[t].pc = "runlock"
    /\ cacheMutex' = [cacheMutex EXCEPT !.readers = @ \ {t}]
    /\ cacheThreads' = [cacheThreads EXCEPT
                          ![t].pc = IF cacheThreads[t].exists THEN "ret" ELSE "lock"]
    /\ UNCHANGED <<cacheMap, cacheComputed, engineVars, encVars, fnPc, fnIn, fnOut,
                   parVars>>

\* cacheMutex.Lock(), first half: exclude the other writers and newly arriving readers
LockPending(t) ==
    /\ cacheThreads[t].pc = "lock"
    /\ ~Blocked(t)
    /\ cacheMutex' = [cacheMutex EXCEPT !.writer = t]
    /\ cacheThreads' = [cacheThreads EXCEPT ![t].pc = "acquire"]
    /\ UNCHANGED <<cacheMap, cacheComputed, engineVars, encVars, fnPc, fnIn, fnOut,
                   parVars>>

\* cacheMutex.Lock(), second half: wait for the readers inside to leave
LockAcquire(t) ==
    /\ cacheThreads[t].pc = "acquire"
    /\ ~Blocked(t)
    /\ cacheMutex' = [cacheMutex EXCEPT !.held = TRUE]
    /\ cacheThreads' = [cacheThreads EXCEPT ![t].pc = "check"]
    /\ UNCHANGED <<cacheMap, cacheComputed, engineVars, encVars, fnPc, fnIn, fnOut,
                   parVars>>

\* if info, exists = allLayerInfoCache[w]; !exists { ... }
Recheck(t) ==
    /\ cacheThreads[t].pc = "check"
    /\ LET found == existsUnderLock(cacheMap[cacheThreads[t].w])
       IN cacheThreads' = [cacheThreads EXCEPT
                             ![t].pc = IF found THEN "unlock" ELSE "insert",
                             ![t].info = cacheMap[cacheThreads[t].w],
                             ![t].exists = found]
    /\ UNCHANGED <<cacheMap, cacheMutex, cacheComputed, engineVars, encVars, fnPc, fnIn,
                   fnOut, parVars>>

\* info = prepareLayerInfo(w), and the map assignment begun: the entry is in the
\* map but not yet whole
Insert(t) ==
    /\ cacheThreads[t].pc = "insert"
    /\ LET w    == cacheThreads[t].w
           info == [state |-> "full", base |-> w, gen |-> cacheComputed[w] + 1,
                    table |-> prepareLayerInfo(w, MaxHyperDim)]
       IN /\ cacheComputed' = [cacheComputed EXCEPT ![w] = @ + 1]
          /\ cacheMap' = [cacheMap EXCEPT ![w] = [info EXCEPT !.state = "partial"]]
          /\ cacheThreads' = [cacheThreads EXCEPT ![t].pc = "store", ![t].info = info]
    /\ UNCHANGED <<cacheMutex, engineVars, encVars, fnPc, fnIn, fnOut, parVars>>

\* allLayerInfoCache[w] = info completed
Store(t) ==
    /\ cacheThreads[t].pc = "store"
    /\ cacheMap' = [cacheMap EXCEPT ![cacheThreads[t].w] = cacheThreads[t].info]
    /\ cacheThreads' = [cacheThreads EXCEPT ![t].pc = "unlock"]
    /\ UNCHANGED <<cacheMutex, cacheComputed, engineVars, encVars, fnPc, fnIn, fnOut,
                   parVars>>

\* cacheMutex.Unlock(); return info
Unlock(t) ==
    /\ cacheThreads[t].pc = "unlock"
    /\ cacheMutex' = [cacheMutex EXCEPT !.writer = 0, !.held = FALSE]
    /\ cacheThreads' = [cacheThreads EXCEPT ![t].pc = "ret"]
    /\ UNCHANGED <<cacheMap, cacheComputed, engineVars, encVars, fnPc, fnIn, fnOut,
                   parVars>>

\* The process has just started: the cache is empty, and every thread is about to
\* call getAllLayerData with some base
InitCache ==
    /\ EngineIdle
    /\ EncIdle
    /\ LibIdle
    /\ ParIdle
    /\ cacheMap = [w \in CacheBases |-> NoEntry]
    /\ cacheMutex = [readers |-> {}, writer |-> 0, held |-> FALSE]
    /\ cacheComputed = [w \in CacheBases |-> 0]
    /\ cacheThreads \in [1..MaxThreads ->
                           {[pc |-> "rlock", w |-> w, info |-> NoEntry, exists |-> FALSE] :
                              w \in CacheBases}]

NextCache ==
    \E t \in 1..MaxThreads :
        \/ RLock(t) \/ ReadEntry(t) \/ RUnlock(t)
        \/ LockPending(t) \/ LockAcquire(t) \/ Recheck(t) \/ Insert(t) \/ Store(t)
        \/ Unlock(t)

SpecCache == InitCache /\ [][NextCache]_vars

-----------------------------------------------------------------------------
(* Properties *)

\* x <= y coordinate-wise
Leq(x, y) == Len(x) = Len(y) /\ \A i \in 1..Len(x) : x[i] <= y[i]

\* C1: whenever Sign(sk, e, m) returns a signature, Verify(pk, e, m, signature)
\* returns true, for every engine and every key KeyGen returned.
C1_SignThenVerify ==
    (vRes # "none" /\ vArgs = <<signArgs[1], signArgs[2], "honest">>) => vRes = "true"

\* C2: Verify(pk, e, m', signature) returns false for every message m' other
\* than the signed one, for every engine, SHA-3 or Poseidon.
C2_OtherMessageRejected ==
    (vRes # "none" /\ vArgs[3] = "honest" /\ vArgs[1] = signArgs[1]
       /\ vArgs[2] # signArgs[2]) => vRes = "false"

\* C3: Verify(pk, e', m, signature) returns false for every epoch e' below the
\* lifetime other than the signed one.
InvC3 ==
    (vRes # "none" /\ vArgs[3] = "honest" /\ vArgs[2] = signArgs[2]
       /\ vArgs[1] # signArgs[1] /\ vArgs[1] < Pow(2, eng.logLifetime)) => vRes = "false"

\* A signature was verified under another epoch of the key's active window
WitC3 ==
    /\ vRes = "false" /\ vArgs[3] = "honest" /\ vArgs[2] = signArgs[2]
    /\ vArgs[1] # signArgs[1]
    /\ vArgs[1] >= sk.ActivationEpoch
    /\ vArgs[1] < sk.ActivationEpoch + sk.NumActiveEpochs

\* C4: Verify always returns a boolean, whatever the signature's hashes vector
\* or co-path length, the epoch or the encoding's result; it never aborts.
C4_VerifyTotal == vRes \in {"none", "true", "false"}

\* C5: Sign returns NotActive exactly for the epochs e < a or e >= a + L, and
\* then it has drawn no randomness, called no Encode and built no signature.
InvC5 ==
    signPc # "idle" =>
       LET outside == \/ signArgs[1] < sk.ActivationEpoch
                      \/ signArgs[1] >= sk.ActivationEpoch + sk.NumActiveEpochs
       IN /\ (signRes = "NotActive") <=> outside
          /\ signRes = "NotActive" =>
                /\ signPc = "done"
                /\ tried = <<>>
                /\ attempts = 0
                /\ ~rhoShort
                /\ sig = NoSig

\* Sign refused an epoch in front of the window
WitC5 == signRes = "NotActive" /\ signArgs[1] < sk.ActivationEpoch

\* The loop of Sign: one rho and one Encode per attempt, never more than MaxTries
\* attempts, every attempt before the last one failed, the signature is built
\* from the last attempt's rho and codeword, and SigningFailed is returned
\* exactly when MaxTries attempts have all failed.
SignLoopOK ==
    LET enc      == eng.encoding
        maxTries == IF enc.kind = "winternitz" THEN 1 ELSE MaxTriesTargetSum
        e        == signArgs[1]
        m        == signArgs[2]
        Res(r)   == Encode(enc, sk.Parameter, m, r, e)
        last     == tried[Len(tried)]
    IN (signPc # "idle" /\ signRes # "NotActive") =>
         /\ attempts < maxTries
         /\ Len(tried) <= maxTries
         /\ signPc = "loop" =>
               /\ signRes = "none"
               /\ Len(tried) = attempts
               /\ \A i \in 1..Len(tried) : Res(tried[i]).err
         /\ signPc = "done" =>
               /\ signRes \in {"sig", "SigningFailed"}
               /\ Len(tried) = attempts + 1
               /\ \A i \in 1..attempts : Res(tried[i]).err
         /\ signRes = "sig" =>
               /\ ~Res(last).err
               /\ sig.Rho = last
               /\ sig.Path = Path(sk.Tree, e)
               /\ sig.Hashes = [i \in 1..Len(Res(last).codeword) |->
                                  Chain(sk.Parameter, e, i - 1, 0, Res(last).codeword[i],
                                        PrfApply(sk.PRFKey, e, i - 1))]
         /\ (signRes = "SigningFailed") <=>
               (signPc = "done" /\ Len(tried) = maxTries /\ Res(last).err)
         /\ signRes = "SigningFailed" => signErrAttempts = maxTries /\ sig = NoSig

\* A step taken inside the loop of Sign is one attempt: it draws one rho and
\* calls Encode once, and it either leaves the loop or counts the attempt
SignLoopStep ==
    signPc = "loop" =>
       /\ Len(tried') = Len(tried) + 1
       /\ SubSeq(tried', 1, Len(tried)) = tried
       /\ signPc' = "done" \/ (signPc' = "loop" /\ attempts' = attempts + 1)

\* C6: Sign tries at most MaxTries times, one rho and one Encode per try, stops
\* at the first success, fails with attempts = MaxTries exactly when every try
\* failed, and terminates: every step in the loop leaves it or raises the
\* attempt counter, which stays below MaxTries.
InvC6 == []SignLoopOK /\ [][SignLoopStep]_vars

\* Sign succeeded on a later attempt than the first
WitC6 == signRes = "sig" /\ attempts >= 1 /\ Len(tried) = attempts + 1

\* C7: engine creation fails exactly when tau > 32, base > 256 or dimension > 256,
\* and KeyGen fails exactly when a + L > 2^tau.
InvC7 ==
    /\ engState # "none" =>
          ((engState = "panic") <=> \/ eng.logLifetime > 32
                                    \/ Base(eng.encoding) > 256
                                    \/ Dimension(eng.encoding) > 256)
    /\ (keyState # "none" /\ keyShort = "none") =>
          ((keyState = "panic") <=> keyArgs[1] + keyArgs[2] > Pow(2, eng.logLifetime))

\* KeyGen refused a window that ends past the lifetime, on an engine that was accepted
WitC7 ==
    /\ engState = "ok" /\ keyState = "panic" /\ keyShort = "none"
    /\ keyArgs[1] + keyArgs[2] > Pow(2, eng.logLifetime)

\* C8: whenever the byte source returns fewer bytes than asked for during KeyGen
\* or Sign, the operation aborts.
C8_ShortReadAborts ==
    /\ keyShort # "none" => keyState = "panic"
    /\ rhoShort => signRes = "panic"

\* C9: Winternitz codewords of two distinct message-digit vectors of length
\* v_msg with digits in [0, base) are incomparable; a codeword has length
\* v_msg + v_ck and its coordinates are in [0, base).
InvC9 ==
    (encPc = "out" /\ encIn.kind = "winternitz") =>
       LET cx == encOut.x.codeword
           cy == encOut.y.codeword
           n  == Len(encIn.x) + encIn.numChunksChecksum
       IN /\ ~encOut.x.err /\ ~encOut.y.err
          /\ Len(cx) = n /\ Len(cy) = n
          /\ \A i \in 1..n : cx[i] \in 0..(encIn.base - 1) /\ cy[i] \in 0..(encIn.base - 1)
          /\ SubSeq(cx, 1, Len(encIn.x)) = encIn.x
          /\ encIn.x # encIn.y => ~Leq(cx, cy) /\ ~Leq(cy, cx)

\* Two digit vectors, one below the other, were encoded
WitC9 ==
    /\ encPc = "out" /\ encIn.kind = "winternitz"
    /\ encIn.x # encIn.y /\ Leq(encIn.x, encIn.y)
    /\ Len(encIn.x) >= 2

\* C10: Target-Sum Encode fails exactly when the digit sum differs from T and
\* otherwise returns the digits unchanged; returned codewords have sum T and
\* distinct ones are incomparable.
InvC10 ==
    (encPc = "out" /\ encIn.kind = "targetsum") =>
       /\ encOut.x.err <=> (SeqSum(encIn.x) # encIn.targetSum)
       /\ encOut.y.err <=> (SeqSum(encIn.y) # encIn.targetSum)
       /\ ~encOut.x.err => encOut.x.codeword = encIn.x /\ SeqSum(encOut.x.codeword) = encIn.targetSum
       /\ ~encOut.y.err => encOut.y.codeword = encIn.y /\ SeqSum(encOut.y.codeword) = encIn.targetSum
       /\ (~encOut.x.err /\ ~encOut.y.err /\ encOut.x.codeword # encOut.y.codeword) =>
             ~Leq(encOut.x.codeword, encOut.y.codeword) /\ ~Leq(encOut.y.codeword, encOut.x.codeword)

\* Two distinct digit vectors of sum T were both returned as codewords
WitC10 ==
    /\ encPc = "out" /\ encIn.kind = "targetsum"
    /\ ~encOut.x.err /\ ~encOut.y.err
    /\ encOut.x.codeword # encOut.y.codeword

\* C11: walking a chain s steps from position 0 gives the same value as walking
\* a steps from position 0 and then s - a steps from position a, for every
\* split 0 <= a <= s; a walk of 0 steps returns its input.  The same holds from
\* any start position that leaves room for s steps.
InvC11 ==
    (fnPc = "out" /\ fnIn.kind = "chain") =>
       /\ fnOut.whole = fnOut.second
       /\ fnIn.s = 0 => fnOut.whole = fnIn.start
       /\ fnIn.a = 0 => fnOut.first = fnIn.start
       /\ fnIn.a = fnIn.s => fnOut.second = fnOut.first

\* A chain was walked from position 0 in two legs, neither of them empty
WitC11 ==
    /\ fnPc = "out" /\ fnIn.kind = "chain"
    /\ fnIn.pos = 0 /\ fnIn.s = MaxChainSteps /\ fnIn.a > 0 /\ fnIn.a < fnIn.s
    /\ fnOut.whole # fnIn.start

\* C12: two tweaks are the same byte string only if they are of the same kind and
\* made from the same arguments; a chain tweak is 7 bytes starting 0x00, a tree
\* tweak 6 bytes starting 0x01, a message tweak 5 bytes starting 0x02.
InvC12 ==
    (fnPc = "out" /\ fnIn.kind = "tweak") =>
       /\ fnOut.x = fnOut.y => fnIn.x = fnIn.y
       /\ \A t \in {<<fnIn.x, fnOut.x>>, <<fnIn.y, fnOut.y>>} :
             /\ \A i \in 1..Len(t[2]) : t[2][i] \in 0..255
             /\ t[1][1] = "chain"   => Len(t[2]) = 7 /\ t[2][1] = 0
             /\ t[1][1] = "tree"    => Len(t[2]) = 6 /\ t[2][1] = 1
             /\ t[1][1] = "message" => Len(t[2]) = 5 /\ t[2][1] = 2

\* Two chain tweaks were encoded whose epochs differ in the high bytes only
WitC12 ==
    /\ fnPc = "out" /\ fnIn.kind = "tweak"
    /\ fnIn.x[1] = "chain" /\ fnIn.y[1] = "chain"
    /\ fnIn.x[2] = 1 /\ fnIn.y[2] = 16777217
    /\ fnIn.x[3] = fnIn.y[3] /\ fnIn.x[4] = fnIn.y[4]
    /\ fnOut.x # fnOut.y

\* C13: for every depth, every segment of n >= 1 leaves starting at s with
\* s + n <= 2^depth, and every leaf position e of the segment, VerifyPath accepts
\* the leaf at e with the path Path(e) against Root(); the path has one node per level.
InvC13 ==
    (fnPc = "out" /\ fnIn.kind = "tree") =>
       /\ fnOut.ok
       /\ Len(fnOut.path) = fnIn.depth
       /\ Len(fnOut.layers) = fnIn.depth + 1

\* A segment with odd start and odd length that leaves room on both sides, opened
\* at a leaf inside it
WitC13 ==
    /\ fnPc = "out" /\ fnIn.kind = "tree"
    /\ fnIn.depth = MaxTreeDepth
    /\ fnIn.startIndex % 2 = 1 /\ fnIn.numLeaves % 2 = 1 /\ fnIn.numLeaves >= 3
    /\ fnIn.startIndex + fnIn.numLeaves < Pow(2, fnIn.depth)
    /\ fnIn.epoch > fnIn.startIndex
    /\ fnOut.ok

\* C14: for every base w, dimension v, layer d and x below the size of the layer,
\* MapToVertex returns a vertex of length v with coordinates in [0, w-1] and
\* coordinate sum (w-1)v - d, and MapToInteger maps that vertex back to x.
C14_RoundTrip ==
    (fnPc = "out" /\ fnIn.kind = "hypercube") =>
       /\ ~fnOut.vertex.panic
       /\ Len(fnOut.vertex.vertex) = fnIn.v
       /\ \A i \in 1..Len(fnOut.vertex.vertex) : fnOut.vertex.vertex[i] \in 0..(fnIn.w - 1)
       /\ SeqSum(fnOut.vertex.vertex) = (fnIn.w - 1) * fnIn.v - fnIn.d
       /\ ~fnOut.back.panic
       /\ fnOut.back.x = fnIn.x

\* C15: for every message hasher its constructor accepts and all inputs, Hash
\* returns exactly Dimension() digits, each of them in [0, Base()).
C15_HashDigits ==
    (fnPc = "out" /\ fnIn.kind = "hash") =>
       /\ Len(fnOut.digits) = HashDimension(fnIn.mh)
       /\ \A i \in 1..Len(fnOut.digits) : fnOut.digits[i] \in 0..(HashBase(fnIn.mh) - 1)

\* C16: for every SHA-3 tweakable hash NewSHA3TweakableHash accepts, Apply returns
\* exactly hash_len bytes, the length of the domain elements RandDomain returns.
C16_ApplyLength ==
    (fnPc = "out" /\ fnIn.kind = "th") =>
       /\ Len(fnOut.out) = fnIn.hashLen
       /\ Len(fnOut.out) = Len(fnIn.message[1])

\* C20: ComputeOptimalTarget(v, w, delta) returns the ceiling of
\* delta * v * (2^w - 1) / 2; for delta = 1.0 that is the ceiling of v(2^w - 1)/2.
C20_TargetIsCeiling ==
    (fnPc = "out" /\ fnIn.kind = "target") =>
       LET num == fnIn.deltaNum * fnIn.dimension * (Pow(2, fnIn.chunkSize) - 1)
           den == 2 * fnIn.deltaDen
       IN fnOut.T = (num + den - 1) \div den

\* The key pair exactly as KeyGen built it from its arguments and its draws
KeyAsGenerated ==
    keyState = "ok" =>
       \E P \in ParameterDraws, K \in PRFKeyDraws :
          LET tree == KeyGenTree(eng, P, K, keyArgs[1], keyArgs[2])
          IN /\ sk = [PRFKey |-> K, Tree |-> tree, Parameter |-> P,
                      ActivationEpoch |-> keyArgs[1], NumActiveEpochs |-> keyArgs[2]]
             /\ pk = [Root |-> Root(tree), Parameter |-> P]

\* What the last Sign call returned is what Sign computes from the key as KeyGen
\* built it, however many Sign calls came before
SignFromGeneratedKey ==
    signPc = "done" =>
       \E P \in ParameterDraws, K \in PRFKeyDraws :
          LET tree  == KeyGenTree(eng, P, K, keyArgs[1], keyArgs[2])
              key   == [PRFKey |-> K, Tree |-> tree, Parameter |-> P,
                        ActivationEpoch |-> keyArgs[1], NumActiveEpochs |-> keyArgs[2]]
              epoch == signArgs[1]
          IN /\ signRes = "NotActive" <=>
                   (epoch < keyArgs[1] \/ epoch >= keyArgs[1] + keyArgs[2])
             /\ signRes = "sig" =>
                   LET res == Encode(eng.encoding, P, signArgs[2], sig.Rho, epoch)
                   IN /\ ~res.err
                      /\ sig.Path = Path(tree, epoch)
                      /\ sig.Hashes = SignHashes(eng, key, epoch, res.codeword)

\* C17: Sign only reads the secret key: after any Sign call, whatever it
\* returned, the PRF key, parameter, activation epoch, active count and tree of
\* sk are as KeyGen built them, no step changes sk once it exists, and what a
\* later Sign call returns is computed from that same key.
InvC17 ==
    /\ [](KeyAsGenerated /\ SignFromGeneratedKey)
    /\ [][keyState = "ok" => sk' = sk /\ pk' = pk]_vars

\* A second Sign call with the same key returned a signature, which Verify accepted
WitC17 ==
    /\ signCalls = MaxSignCalls
    /\ signPc = "done" /\ signRes = "sig"
    /\ vRes = "true"

\* C18: whatever the order in which the goroutines of a parallel branch run, once
\* wg.Wait() has returned every goroutine has finished and the buffer holds exactly
\* what the sequential branch computes on the same inputs; no goroutine indexes
\* outside the buffer, and a slot only ever changes by the store of its own goroutine.
InvC18 ==
    /\ [](/\ parPc # "panic"
          /\ parPc = "after" =>
                /\ parBuf = Sequential(parJob)
                /\ \A k \in 1..parJob.n : parWorker[k] = "done")
    /\ [][\A k \in (DOMAIN parBuf) \cap (DOMAIN parBuf') :
              parBuf'[k] # parBuf[k] => parWorker[k] = "ready" /\ parWorker'[k] = "wrote"]_vars

\* KeyGen's branch with the most goroutines has passed wg.Wait()
WitC18 ==
    /\ parPc = "after"
    /\ parJob.kind = "keygen"
    /\ parJob.n = MaxWorkers
    /\ parBuf[MaxWorkers] # NilDomain

\* The steps of getAllLayerData in program order
CachePcOrder ==
    <<"rlock", "read", "runlock", "lock", "acquire", "check", "insert", "store",
      "unlock", "ret">>

\* How far the calls have got, summed over the threads
CacheProgress ==
    SeqSum([t \in 1..MaxThreads |-> IndexIn(cacheThreads[t].pc, CachePcOrder)])

\* C19: with several threads calling getAllLayerData for the same base and for
\* different bases, in any interleaving: as long as a call has not returned some
\* thread can take a step, and every step brings a call nearer to its return (so
\* every call terminates, without deadlock); the table of a base is computed at most
\* once; a lookup never sees a half-inserted entry, and a call that found or made an
\* entry returns exactly the whole table the cache holds for its base; an entry once
\* whole is never changed.
InvC19 ==
    /\ [](/\ (\E t \in 1..MaxThreads : cacheThreads[t].pc # "ret") =>
                (\E t \in 1..MaxThreads : cacheThreads[t].pc # "ret" /\ ~Blocked(t))
          /\ \A w \in CacheBases : cacheComputed[w] <= 1
          /\ \A t \in 1..MaxThreads :
                /\ cacheThreads[t].info.state # "partial"
                /\ cacheThreads[t].pc \in {"unlock", "ret"} =>
                      /\ cacheThreads[t].info.state = "full"
                      /\ cacheThreads[t].info.base = cacheThreads[t].w
                      /\ cacheThreads[t].pc = "ret" =>
                            cacheThreads[t].info = cacheMap[cacheThreads[t].w])
    /\ [][/\ CacheProgress' > CacheProgress
          /\ \A w \in CacheBases :
                cacheMap[w].state = "full" => cacheMap'[w] = cacheMap[w]]_vars

\* All threads asked for the same base and all have returned: the last thread
\* computed the table, thread 1 found the table that thread had inserted
WitC19 ==
    /\ \A t \in 1..MaxThreads : cacheThreads[t].pc = "ret" /\ cacheThreads[t].w = 2
    /\ cacheComputed[2] = 1
    /\ cacheThreads[1].exists
    /\ ~cacheThreads[MaxThreads].exists
    /\ cacheThreads[1].info = cacheThreads[MaxThreads].info

\* C21: a key returned by KeyGen, stored with MarshalJSON and decoded again, comes
\* back without error with the same PRF key, parameter, activation epoch, active
\* count, tree depth and layers (start index and nodes, padding included), and Sign
\* gets from it, at every active epoch, the path it gets from the original key.
C21_KeyRoundTrip ==
    (fnPc = "out" /\ fnIn.kind = "persist") =>
       /\ ~fnOut.restored.err
       /\ fnOut.restored.key.PRFKey = fnOut.sk.PRFKey
       /\ fnOut.restored.key.Parameter = fnOut.sk.Parameter
       /\ fnOut.restored.key.ActivationEpoch = fnOut.sk.ActivationEpoch
       /\ fnOut.restored.key.NumActiveEpochs = fnOut.sk.NumActiveEpochs
       /\ fnOut.restored.key.Tree.depth = fnOut.sk.Tree.depth
       /\ fnOut.restored.key.Tree.layers = fnOut.sk.Tree.layers
       /\ \A e \in 1..Len(fnOut.sign) :
             fnOut.sign[e].res = "ok" => fnOut.signRestored[e] = fnOut.sign[e]

\* C22: in every tree NewHashTree builds, every layer below the root starts at an
\* even index and holds an even number of nodes, and the layer above it holds, from
\* position start_index / 2 on, the len / 2 parents of its pairs: the parent at
\* start_index / 2 + k is Th(P, TreeTweak(l + 1, start_index / 2 + k), the pair
\* nodes[2k], nodes[2k + 1]).
InvC22 ==
    (fnPc = "out" /\ fnIn.kind = "build") =>
       \A l \in 0..(fnIn.depth - 1) :
          LET layer == fnOut.layers[l + 1]
              above == fnOut.layers[l + 2]
              first == layer.startIndex \div 2
              off   == first - above.startIndex
              half  == Len(layer.nodes) \div 2
          IN /\ layer.startIndex % 2 = 0
             /\ Len(layer.nodes) % 2 = 0
             /\ off >= 0
             /\ off + half <= Len(above.nodes)
             /\ \A k \in 0..(half - 1) :
                   above.nodes[off + k + 1] =
                      <<"th", fnIn.parameter, <<TweakSeparatorTreeHash, l + 1>> \o BE32(first + k),
                        <<layer.nodes[2 * k + 1], layer.nodes[2 * k + 2]>>>>

\* A tree of the largest depth over an odd number of leaves from an odd start: the
\* leaf layer is padded on both sides
WitC22 ==
    /\ fnPc = "out" /\ fnIn.kind = "build"
    /\ fnIn.depth = MaxTreeDepth
    /\ fnIn.startIndex % 2 = 1 /\ fnIn.numLeaves % 2 = 1 /\ fnIn.numLeaves >= 3
    /\ Len(fnOut.layers[1].nodes) = fnIn.numLeaves + 1
    /\ Len(fnOut.layers[2].nodes) >= 2

\* C23: the tree NewHashTree builds has depth + 1 layers, its last layer starts at
\* index 0 and stores exactly one node, and Root() returns that node.
C23_SingleRoot ==
    (fnPc = "out" /\ fnIn.kind = "build") =>
       /\ Len(fnOut.layers) = fnIn.depth + 1
       /\ fnOut.layers[fnIn.depth + 1].startIndex = 0
       /\ Len(fnOut.layers[fnIn.depth + 1].nodes) = 1
       /\ fnOut.root = fnOut.layers[fnIn.depth + 1].nodes[1]
       /\ fnOut.root # NilDomain

\* C24: for a tree over the leaves [s, s + n) and an epoch e of that window, Path(e)
\* has one node per level below the root, and its entry for level l is the node the
\* tree stores at index rel XOR 1 of layer l, rel = (e >> l) - start_index of the
\* layer; that index lies inside the layer, so no entry is a freshly drawn element.
InvC24 ==
    (fnPc = "out" /\ fnIn.kind = "tree") =>
       /\ Len(fnOut.path) = fnIn.depth
       /\ \A l \in 0..(fnIn.depth - 1) :
             LET layer == fnOut.layers[l + 1]
                 rel   == (fnIn.epoch \div Pow(2, l)) - layer.startIndex
                 sib   == IF rel % 2 = 0 THEN rel + 1 ELSE rel - 1
             IN /\ rel >= 0
                /\ sib >= 0 /\ sib < Len(layer.nodes)
                /\ fnOut.path[l + 1] = layer.nodes[sib + 1]
                /\ fnOut.path[l + 1] # RandDomain(-(l + 1))

\* The path of the first leaf of a window with an odd start, in a tree of the
\* largest depth: its first entry is the padding node stored in front of the leaves
WitC24 ==
    /\ fnPc = "out" /\ fnIn.kind = "tree"
    /\ fnIn.depth = MaxTreeDepth
    /\ fnIn.startIndex % 2 = 1
    /\ fnIn.epoch = fnIn.startIndex
    /\ Len(fnOut.path) = MaxTreeDepth
    /\ fnOut.path[1] = fnOut.layers[1].nodes[1]
    /\ fnOut.path[1] = RandDomain(0)

\* The integer whose little-endian digits in the given base are ds
RECURSIVE DigitsValue(_, _)
DigitsValue(ds, base) ==
    IF ds = <<>> THEN 0 ELSE Head(ds) + base * DigitsValue(Tail(ds), base)

\* C25: for w in {1, 2, 4, 8} and a hasher of v_msg digits of w bits,
\* NewWinternitzEncoding returns exactly for the checksum length v_ck with
\* base^(v_ck - 1) <= v_msg * (base - 1) < base^v_ck, that is
\* v_ck = floor(log_base(v_msg * (base - 1))) + 1, and panics for every other one;
\* for that v_ck the checksum sum(base - 1 - d_i) is below base^v_ck and the v_ck
\* checksum digits of the codeword, read little-endian, are the checksum itself.
InvC25 ==
    (fnPc = "out" /\ fnIn.kind = "winternitz") =>
       LET base == Pow(2, fnIn.chunkSize)
           top  == fnIn.numChunksMessage * (base - 1)
           vck  == fnIn.numChunksChecksum
           sum  == SeqSum([i \in 1..Len(fnIn.digits) |-> base - 1 - fnIn.digits[i]])
       IN /\ ~fnOut.panics <=> (vck >= 1 /\ Pow(base, vck - 1) <= top /\ top < Pow(base, vck))
          /\ ~fnOut.panics =>
                /\ sum < Pow(base, vck)
                /\ Len(fnOut.codeword) = fnIn.numChunksMessage + vck
                /\ DigitsValue(SubSeq(fnOut.codeword, fnIn.numChunksMessage + 1,
                                      fnIn.numChunksMessage + vck), base) = sum

\* An accepted encoding whose largest checksum is exactly base^(v_ck - 1), encoded
\* on the digits that give that checksum
WitC25 ==
    /\ fnPc = "out" /\ fnIn.kind = "winternitz"
    /\ ~fnOut.panics
    /\ fnIn.chunkSize = 1 /\ fnIn.numChunksMessage = 16 /\ fnIn.numChunksChecksum = 5
    /\ fnIn.digits[1] = 0
    /\ fnOut.codeword[fnIn.numChunksMessage + 5] = 1

\* C26: for every base w >= 2 and dimension v, the table has one entry per layer
\* d in 0..(w-1)v; Sizes[d] is the number of vertices of [0, w-1]^v with coordinate
\* sum (w-1)v - d, PrefixSums[d] is the sum of Sizes[0..d], and the last prefix sum
\* is w^v.
InvC26 ==
    (fnPc = "out" /\ fnIn.kind = "table") =>
       LET w    == fnIn.w
           v    == fnIn.v
           maxD == (w - 1) * v
           InLayer(d) == {a \in [1..v -> 0..(w - 1)] : SeqSum(a) = maxD - d}
           UpTo(d)    == {a \in [1..v -> 0..(w - 1)] : SeqSum(a) >= maxD - d}
       IN /\ Len(fnOut.info.Sizes) = maxD + 1
          /\ Len(fnOut.info.PrefixSums) = maxD + 1
          /\ \A d \in 0..maxD :
                /\ fnOut.info.Sizes[d + 1] = Cardinality(InLayer(d))
                /\ fnOut.info.PrefixSums[d + 1] = Cardinality(UpTo(d))
          /\ fnOut.info.PrefixSums[maxD + 1] = Pow(w, v)

\* The table of the largest base in the largest dimension; its middle layers hold
\* more than one vertex
WitC26 ==
    /\ fnPc = "out" /\ fnIn.kind = "table"
    /\ fnIn.w = MaxHyperBase /\ fnIn.v = MaxHyperDim
    /\ fnOut.info.Sizes[1] = 1
    /\ fnOut.info.Sizes[3] > fnOut.info.Sizes[2]
    /\ fnOut.info.PrefixSums[Len(fnOut.info.PrefixSums)] = Pow(MaxHyperBase, MaxHyperDim)

-----------------------------------------------------------------------------
(* The integer the Poseidon2 hasher decodes *)

RECURSIVE LowFirstValue(_)
\* sum of fe_i * p^i, fe_0 least significant
LowFirstValue(fieldElements) ==
    IF fieldElements = <<>> THEN 0
    ELSE Head(fieldElements) + BabyBearP * LowFirstValue(Tail(fieldElements))

\* C27: the Poseidon2 message hasher turns the squeezed field elements
\* fe_0..fe_{k-1} into A = sum of fe_i * p^i, fe_0 least significant, and
\* returns the v digits of A in base B, least significant digit first
C27_LowFirstDecode ==
    (fnPc = "out" /\ fnOut.kind = "decode") =>
        /\ fnOut.acc = LowFirstValue(fnIn.fieldElements)
        /\ fnOut.chunks = BaseDigits(LowFirstValue(fnIn.fieldElements), fnIn.mh.base,
                                     fnIn.mh.dimension)

\* Side statement of C27: the digits are those of the accumulated integer,
\* least significant first, and the accumulation makes fe_0 most significant
C27_HighFirstDecode ==
    (fnPc = "out" /\ fnOut.kind = "decode") =>
        /\ fnOut.chunks = BaseDigits(fnOut.acc, fnIn.mh.base, fnIn.mh.dimension)
        /\ Len(fnIn.fieldElements) = 2 =>
              fnOut.acc = fnIn.fieldElements[1] * BabyBearP + fnIn.fieldElements[2]

-----------------------------------------------------------------------------
(* The vertex of the Top-Level Poseidon hasher *)

\* C28: for every Top-Level Poseidon hasher (base w >= 1, dimension v in 1..100,
\* final_layer in 0..(w-1)v) and every vector of field elements,
\* mapIntoHypercubePart returns a vertex of length v with every coordinate in
\* [0, w-1] whose layer (w-1)v - sum lies in 0..final_layer: the vertex whose
\* position among the vertices of layers 0..final_layer (the layers before its
\* own, then its index inside its layer) is the accumulated integer modulo the
\* number of those vertices.
InvC28 ==
    (fnPc = "out" /\ fnOut.kind = "part") =>
       LET w      == fnIn.h.base
           v      == fnIn.h.dimension
           maxD   == (w - 1) * v
           UpTo(d) == {a \in [1..v -> 0..(w - 1)] : SeqSum(a) >= maxD - d}
           vertex == fnOut.res.vertex
           layer  == maxD - SeqSum(vertex)
           before == IF layer = 0 THEN 0 ELSE Cardinality(UpTo(layer - 1))
           index  == MapToInteger(w, v, layer, vertex)
       IN /\ ~fnOut.res.panic
          /\ Len(vertex) = v
          /\ \A i \in 1..v : vertex[i] \in 0..(w - 1)
          /\ layer \in 0..fnIn.h.finalLayer
          /\ ~index.panic
          /\ before + index.x
               = FieldAcc(fnIn.fieldElements, 0) % Cardinality(UpTo(fnIn.h.finalLayer))

\* A part that is not the whole hypercube, an accumulated integer of two field
\* elements above the size of the part, and a vertex in the last layer of the part
\* that is not the first of its layer
WitC28 ==
    /\ fnPc = "out"
    /\ fnOut.kind = "part"
    /\ fnIn.h.dimension >= 3
    /\ fnIn.h.finalLayer \in 2..((fnIn.h.base - 1) * fnIn.h.dimension - 1)
    /\ Len(fnIn.fieldElements) = 2
    /\ ~fnOut.res.panic
    /\ (fnIn.h.base - 1) * fnIn.h.dimension - SeqSum(fnOut.res.vertex) = fnIn.h.finalLayer
    /\ MapToInteger(fnIn.h.base, fnIn.h.dimension, fnIn.h.finalLayer, fnOut.res.vertex).x > 0

-----------------------------------------------------------------------------
(* The shape of the signatures Verify accepts *)

\* C29: Verify accepts only well-formed signatures: when it returns true the
\* signature's co-path has exactly tau entries and its hashes vector exactly
\* Dimension() entries.
C29_WellFormedOnly ==
    vRes = "true" =>
        /\ Len(Shaped(sig, vArgs[3]).Path) = eng.logLifetime
        /\ Len(Shaped(sig, vArgs[3]).Hashes) = Dimension(eng.encoding)

\* Side statement of C29: an accepted signature has a co-path of tau entries and
\* at least Dimension() hashes, and the hashes beyond Dimension() are not read
C29_PathLengthOnly ==
    /\ vRes = "true" =>
          /\ Len(Shaped(sig, vArgs[3]).Path) = eng.logLifetime
          /\ Len(Shaped(sig, vArgs[3]).Hashes) >= Dimension(eng.encoding)
    /\ (vRes # "none" /\ vArgs[3] = "longHashes") =>
          vRes = VerifyResult(eng, pk, vArgs[1], vArgs[2], sig)

-----------------------------------------------------------------------------
(* The chain tweaks of KeyGen, Sign and Verify *)

\* The codeword Sign walked for the signature it returned
SignedCodeword == Encode(eng.encoding, sk.Parameter, signArgs[2], sig.Rho, signArgs[1]).codeword

\* The (epoch, chain, position) triples of an engine's chains
ChainTriples(g) ==
    Epochs \X (0..(Dimension(g.encoding) - 1)) \X (1..(Base(g.encoding) - 1))

\* The chains of a returned signature: the uint8 chain index is the chain's
\* number, KeyGen walks positions 1..w-1, Sign 1..x_i, Verify x_i+1..w-1, and
\* Verify's walk from Sign's value ends at KeyGen's chain end
ChainsAgree(g) ==
    LET w  == Base(g.encoding)
        v  == Dimension(g.encoding)
        cw == SignedCodeword
    IN \A i \in 1..v :
          /\ (i - 1) % 256 = i - 1
          /\ ChainPositions(0, w - 1) = [j \in 1..(w - 1) |-> j]
          /\ cw[i] \in 0..(w - 1)
          /\ ChainPositions(0, cw[i]) = [j \in 1..cw[i] |-> j]
          /\ ChainPositions(cw[i] % 256, w - 1 - cw[i]) = [j \in 1..(w - 1 - cw[i]) |-> cw[i] + j]
          /\ sig.Hashes[i] = SignHashes(g, sk, signArgs[1], cw)[i]
          /\ VerifyChainEnds(g, pk.Parameter, signArgs[1], cw, sig.Hashes)[i]
               = ChainEnds(g, sk.Parameter, sk.PRFKey, signArgs[1])[i]

\* No two distinct triples share a tweak
TweaksDistinct(g) ==
    \A t, u \in ChainTriples(g) :
        ChainTweak(t[1], t[2] % 256, t[3] % 256) = ChainTweak(u[1], u[2] % 256, u[3] % 256)
           => t = u

\* C30: for every engine with base w <= 256 and dimension v <= 256, every chain
\* tweak of KeyGen, Sign and Verify uses chain index i and a position in 1..w-1
\* computed without wrap-around of the 8-bit fields (KeyGen 1..w-1, Sign 1..x_i,
\* Verify x_i+1..w-1), Sign's value followed by Verify's walk reproduces KeyGen's
\* chain end, and no two distinct (epoch, chain, position) triples share a tweak.
C30_ChainTweaks ==
    (signPc = "done" /\ signRes = "sig") => (ChainsAgree(eng) /\ TweaksDistinct(eng))

\* Side statement of C30: the same for the engines whose hasher produces digits
\* of the encoding's base, and, at the limits w = 256 and v = 256, for every
\* chain index and every codeword digit
C30_MatchedEngines ==
    /\ (signPc = "done" /\ signRes = "sig" /\ HashBase(eng.encoding.mh) = Base(eng.encoding))
          => (ChainsAgree(eng) /\ TweaksDistinct(eng))
    /\ engState = "none" =>
          /\ \A i \in 0..255 : i % 256 = i
          /\ ChainPositions(0, 255) = [j \in 1..255 |-> j]
          /\ \A x \in 0..255 :
                ChainPositions(x % 256, 255 - x) = [j \in 1..(255 - x) |-> x + j]
          /\ \A c, d \in {0, 1, 255}, q, r \in {1, 2, 255} :
                ChainTweak(0, c, q) = ChainTweak(0, d, r) => <<c, q>> = <<d, r>>

====
